---- MODULE Spec2Model ----
(***************************************************************************)
(* The narration classifier of backend/SRC/refined_categories.py:          *)
(* RefinedCategorizer.categorize and learn, the merchant lookup, the       *)
(* personal-name detector and the category rule tables, as a state machine *)
(* over one classifier instance, its learned mapping and its mapping file. *)
(*                                                                         *)
(* Text is modelled by TLA+ strings; Python's str operations (lower,       *)
(* upper, strip, split, replace, in) and the regular expressions the code  *)
(* uses are the operators of the first two sections.                       *)
(***************************************************************************)
EXTENDS Integers, Sequences, FiniteSets, TLC

(***************************************************************************)
(* Python str operations                                                   *)
(***************************************************************************)
LOWER_LETTERS == "abcdefghijklmnopqrstuvwxyz"
UPPER_LETTERS == "ABCDEFGHIJKLMNOPQRSTUVWXYZ"
DIGITS == "0123456789"

CharAt(s, i) == SubSeq(s, i, i)

CharsOf(s) == {CharAt(s, i) : i \in 1..Len(s)}

Whitespace == {" ", "\t", "\n", "\r"}

IsSpace(c) == c \in Whitespace

DigitChars == CharsOf(DIGITS)

UpperChars == CharsOf(UPPER_LETTERS)

\* The characters \w of the re module matches (ASCII narrations).
WordChars == CharsOf(LOWER_LETTERS) \cup UpperChars \cup DigitChars \cup {"_"}

IsDigit(c) == c \in DigitChars

IsWordChar(c) == c \in WordChars

Min(S) == CHOOSE x \in S : \A y \in S : x <= y

Max(S) == CHOOSE x \in S : \A y \in S : x >= y

\* c with the letter of `from` it equals replaced by the letter of `to` at the same place.
MapChar(c, from, to) ==
    IF \E k \in 1..Len(from) : CharAt(from, k) = c
    THEN CharAt(to, CHOOSE k \in 1..Len(from) : CharAt(from, k) = c)
    ELSE c

\* Characters lo..hi of s mapped, the two halves one after the other.
RECURSIVE MapRange(_, _, _, _, _)
MapRange(s, lo, hi, from, to) ==
    IF lo > hi THEN ""
    ELSE IF lo = hi THEN MapChar(CharAt(s, lo), from, to)
    ELSE LET mid == (lo + hi) \div 2
         IN  MapRange(s, lo, mid, from, to) \o MapRange(s, mid + 1, hi, from, to)

MapFrom(s, i, from, to) == MapRange(s, i, Len(s), from, to)

\* str.lower()
Lower(s) == MapFrom(s, 1, UPPER_LETTERS, LOWER_LETTERS)

\* str.upper()
Upper(s) == MapFrom(s, 1, LOWER_LETTERS, UPPER_LETTERS)

\* str.strip()
Strip(s) ==
    LET solid == {i \in 1..Len(s) : ~IsSpace(CharAt(s, i))}
    IN  IF solid = {} THEN "" ELSE SubSeq(s, Min(solid), Max(solid))

\* sub in s
Contains(sub, s) ==
    \E i \in 1..(Len(s) - Len(sub) + 1) : SubSeq(s, i, i + Len(sub) - 1) = sub

\* str.isdigit()
IsDigitStr(s) == Len(s) > 0 /\ \A i \in 1..Len(s) : IsDigit(CharAt(s, i))

\* any(char.isdigit() for char in s)
HasDigit(s) == \E i \in 1..Len(s) : IsDigit(CharAt(s, i))

\* str.split(): the maximal runs of non-whitespace characters, in order.
RECURSIVE SplitFrom(_, _)
SplitFrom(s, i) ==
    IF i > Len(s) THEN << >>
    ELSE IF IsSpace(CharAt(s, i)) THEN SplitFrom(s, i + 1)
    ELSE LET stops == {j \in i..Len(s) : j = Len(s) \/ IsSpace(CharAt(s, j + 1))}
             j == Min(stops)
         IN  <<SubSeq(s, i, j)>> \o SplitFrom(s, j + 1)

Split(s) == SplitFrom(s, 1)

\* str.split(sep) for a one-character sep.
RECURSIVE SplitSepFrom(_, _, _)
SplitSepFrom(s, sep, i) ==
    LET cuts == {j \in i..Len(s) : CharAt(s, j) = sep}
    IN  IF cuts = {} THEN <<SubSeq(s, i, Len(s))>>
        ELSE <<SubSeq(s, i, Min(cuts) - 1)>> \o SplitSepFrom(s, sep, Min(cuts) + 1)

SplitSep(s, sep) == SplitSepFrom(s, sep, 1)

\* str.replace(sub, ''): the occurrences of sub removed, left to right, not overlapping.
RECURSIVE RemoveFrom(_, _, _)
RemoveFrom(s, sub, i) ==
    IF i > Len(s) THEN ""
    ELSE IF i + Len(sub) - 1 <= Len(s) /\ SubSeq(s, i, i + Len(sub) - 1) = sub
         THEN RemoveFrom(s, sub, i + Len(sub))
         ELSE CharAt(s, i) \o RemoveFrom(s, sub, i + 1)

RemoveAll(s, sub) == RemoveFrom(s, sub, 1)

\* max(words, key=len): the first word of the greatest length.
LongestWord(words) ==
    words[Min({i \in 1..Len(words) : \A j \in 1..Len(words) : Len(words[j]) <= Len(words[i])})]

(***************************************************************************)
(* Regular expressions (re.search)                                         *)
(*                                                                         *)
(* A pattern is a sequence of atoms: <<"any">> is .* ; <<"lit", x>> the    *)
(* text x; <<"wb">> is \b; <<"spaces">> is \s*; <<"opt", x>> is x? ;       *)
(* <<"alt", xs>> is (x1|x2|...); <<"not_ahead", p>> is (?!p).  The code    *)
(* matches with re.IGNORECASE against an already lower-cased narration and *)
(* every pattern is lower-case, so the comparison of characters is exact.  *)
(***************************************************************************)
\* \b at the place before character i (i = Len(s) + 1: the end of s).
WordBoundary(s, i) ==
    LET before == i > 1 /\ IsWordChar(CharAt(s, i - 1))
        after == i <= Len(s) /\ IsWordChar(CharAt(s, i))
    IN  before # after

LitAt(x, s, i) == i + Len(x) - 1 <= Len(s) /\ SubSeq(s, i, i + Len(x) - 1) = x

\* Atoms k.. of pattern p match s from character i on.
RECURSIVE MatchFrom(_, _, _, _)
MatchFrom(p, k, s, i) ==
    IF k > Len(p) THEN TRUE
    ELSE LET a == p[k] IN
         CASE a[1] = "any" -> \E j \in i..(Len(s) + 1) : MatchFrom(p, k + 1, s, j)
           [] a[1] = "lit" -> LitAt(a[2], s, i) /\ MatchFrom(p, k + 1, s, i + Len(a[2]))
           [] a[1] = "wb" -> WordBoundary(s, i) /\ MatchFrom(p, k + 1, s, i)
           [] a[1] = "spaces" ->
                \E j \in i..(Len(s) + 1) :
                    /\ \A m \in i..(j - 1) : IsSpace(CharAt(s, m))
                    /\ MatchFrom(p, k + 1, s, j)
           [] a[1] = "opt" ->
                \/ LitAt(a[2], s, i) /\ MatchFrom(p, k + 1, s, i + Len(a[2]))
                \/ MatchFrom(p, k + 1, s, i)
           [] a[1] = "alt" ->
                \E n \in 1..Len(a[2]) :
                    LitAt(a[2][n], s, i) /\ MatchFrom(p, k + 1, s, i + Len(a[2][n]))
           [] a[1] = "not_ahead" -> ~MatchFrom(a[2], 1, s, i) /\ MatchFrom(p, k + 1, s, i)

\* re.search(p, s)
Search(p, s) == \E i \in 1..(Len(s) + 1) : MatchFrom(p, 1, s, i)

(***************************************************************************)
(* The merchant database (merchant_database.json, read at import)          *)
(*                                                                         *)
(* The document is an input of the program.  A document is a sequence of   *)
(* entries [key, category, subcategory, merchants] in the order of the     *)
(* file; the file of a source is absent, or holds one of the documents     *)
(* below.                                                                  *)
(***************************************************************************)
SampleMerchantDocument == <<
  [key |-> "_comment", category |-> "Other", subcategory |-> "Uncategorized",
   merchants |-> <<"Zomato">>],
  [key |-> "telecom", category |-> "Utilities", subcategory |-> "Mobile & Phone",
   merchants |-> <<"Vi", "Jio", "Airtel">>],
  [key |-> "jewellery", category |-> "Investments", subcategory |-> "Gold & Jewelry",
   merchants |-> <<"GRT", "GRT Jewellers", "Tanishq">>],
  [key |-> "cabs", category |-> "Transportation", subcategory |-> "Taxi & Rideshare",
   merchants |-> <<"Ola", "OLA">>]
>>

MerchantSources == {"absent", "sample"}

\* _load_merchant_database: the document of the file, {} when there is none.
load_merchant_database(source) ==
    IF source = "sample" THEN SampleMerchantDocument ELSE << >>

\* d[key] = value on a dict kept as a sequence of [name, category, subcategory]
\* in insertion order: a key already present keeps its place.
DictSet(d, name, category, subcategory) ==
    LET entry == [name |-> name, category |-> category, subcategory |-> subcategory]
    IN  IF \E i \in 1..Len(d) : d[i].name = name
        THEN [i \in 1..Len(d) |-> IF d[i].name = name THEN entry ELSE d[i]]
        ELSE Append(d, entry)

RECURSIVE AddMerchants(_, _, _, _)
AddMerchants(lookup, data, merchants, m) ==
    IF m > Len(merchants) THEN lookup
    ELSE AddMerchants(DictSet(lookup, Lower(merchants[m]), data.category, data.subcategory),
                      data, merchants, m + 1)

RECURSIVE BuildFrom(_, _, _)
BuildFrom(lookup, document, e) ==
    IF e > Len(document) THEN lookup
    ELSE IF CharAt(document[e].key, 1) = "_"
         THEN BuildFrom(lookup, document, e + 1)
         ELSE BuildFrom(AddMerchants(lookup, document[e], document[e].merchants, 1),
                        document, e + 1)

\* _build_merchant_lookup
build_merchant_lookup(document) == BuildFrom(<< >>, document, 1)

\* MERCHANT_LOOKUP, built once per source.
MERCHANT_LOOKUP == [source \in MerchantSources |->
                       build_merchant_lookup(load_merchant_database(source))]

\* KNOWN_MERCHANT_NAMES
KNOWN_MERCHANT_NAMES(lookup) == {lookup[i].name : i \in 1..Len(lookup)}

(***************************************************************************)
(* The category rule set                                                   *)
(***************************************************************************)
REFINED_CATEGORIES == <<
  [name |-> "Income", priority |-> 1, subcategories |-> <<
    [name |-> "Salary",
     keywords |-> <<
        "salary", "payroll", "wages", "monthly pay", "neft cr"
     >>,
     patterns |-> <<
        <<<<"any">>, <<"lit", "salary">>, <<"any">>>>,   \* .*salary.*
        <<<<"any">>, <<"lit", "payroll">>, <<"any">>>>   \* .*payroll.*
     >>],
    [name |-> "Interest",
     keywords |-> <<
        "interest", "int.pd", "int pd", "interest credit"
     >>,
     patterns |-> <<
        <<<<"any">>, <<"lit", "interest">>, <<"any">>, <<"lit", "cr">>, <<"any">>>>,   \* .*interest.*cr.*
        <<<<"any">>, <<"lit", "int">>, <<"opt", ".">>, <<"lit", "pd">>, <<"any">>>>   \* .*int\.?pd.*
     >>],
    [name |-> "Dividends",
     keywords |-> <<
        "dividend", "div", "payout"
     >>,
     patterns |-> <<
        <<<<"any">>, <<"lit", "dividend">>, <<"any">>>>   \* .*dividend.*
     >>],
    [name |-> "Refunds",
     keywords |-> <<
        "refund", "cashback", "reversal", "credit back", "returned"
     >>,
     patterns |-> <<
        <<<<"any">>, <<"lit", "refund">>, <<"any">>>>,   \* .*refund.*
        <<<<"any">>, <<"lit", "reversal">>, <<"any">>>>   \* .*reversal.*
     >>],
    [name |-> "Other Income",
     keywords |-> <<
     >>,
     patterns |-> <<
     >>]
  >>],
  [name |-> "Investments", priority |-> 2, subcategories |-> <<
    [name |-> "Stocks & Trading",
     keywords |-> <<
        "zerodha", "upstox", "groww", "angel broking", "angel one", "sharekhan", "iifl",
        "kotak securities", "hdfc securities", "icici direct", "axis direct", "motilal",
        "sharekhan", "5paisa", "alice blue", "fyers", "trading", "demat", "brokerage",
        "nse", "bse", "sensex", "nifty", "stocks", "razorpay", "razpbse", "clearing corp"
     >>,
     patterns |-> <<
        <<<<"any">>, <<"lit", "zerodha">>, <<"any">>>>,   \* .*zerodha.*
        <<<<"any">>, <<"lit", "groww">>, <<"any">>>>,   \* .*groww.*
        <<<<"any">>, <<"lit", "upstox">>, <<"any">>>>,   \* .*upstox.*
        <<<<"any">>, <<"lit", "trading">>, <<"any">>>>,   \* .*trading.*
        <<<<"any">>, <<"lit", "demat">>, <<"any">>>>,   \* .*demat.*
        <<<<"any">>, <<"lit", "brokerage">>, <<"any">>>>,   \* .*brokerage.*
        <<<<"any">>, <<"lit", "razorpay">>, <<"any">>, <<"lit", "securities">>, <<"any">>>>   \* .*razorpay.*securities.*
     >>],
    [name |-> "Mutual Funds & SIP",
     keywords |-> <<
        "mutual fund", "sip", "systematic investment", "amc", "hdfc amc", "icici pru",
        "sbi mf", "axis mf", "kotak mf", "nippon", "franklin", "mirae", "parag parikh",
        "ppfas", "dsp", "tata mf", "uti mf", "aditya birla", "elss", "equity fund",
        "debt fund", "liquid fund", "balanced fund", "fund house", "nav", "hybrid fund"
     >>,
     patterns |-> <<
        <<<<"any">>, <<"lit", "mutual">>, <<"any">>, <<"lit", "fund">>, <<"any">>>>,   \* .*mutual.*fund.*
        <<<<"any">>, <<"wb">>, <<"lit", "sip">>, <<"wb">>, <<"any">>>>,   \* .*\bsip\b.*
        <<<<"any">>, <<"lit", "amc">>, <<"any">>>>,   \* .*amc.*
        <<<<"any">>, <<"lit", "systematic">>, <<"any">>, <<"lit", "invest">>, <<"any">>>>   \* .*systematic.*invest.*
     >>],
    [name |-> "Gold & Jewelry",
     keywords |-> <<
        "mmtc gold", "digital gold", "gold etf", "sovereign gold", "gold bonds", "sgb",
        "bullion", "precious metal", "jewellers", "jewellery", "jewelry shop", "gold shop"
     >>,
     patterns |-> <<
        <<<<"any">>, <<"lit", "jewellers">>, <<"any">>>>,   \* .*jewellers.*
        <<<<"any">>, <<"lit", "jewellery">>, <<"any">>>>,   \* .*jewellery.*
        <<<<"any">>, <<"lit", "gold">>, <<"spaces">>, <<"alt", <<"shop", "store", "house", "palace">>>>, <<"any">>>>,   \* .*gold\s*(shop|store|house|palace).*
        <<<<"any">>, <<"wb">>, <<"lit", "gold">>, <<"wb">>, <<"any">>, <<"wb">>, <<"alt", <<"etf", "bond", "sgb", "mmtc", "sovereign">>>>, <<"wb">>, <<"any">>>>   \* .*\bgold\b.*\b(etf|bond|sgb|mmtc|sovereign)\b.*
     >>],
    [name |-> "Fixed Deposits",
     keywords |-> <<
        "fixed deposit", "fd", "term deposit", "fd booking", "fd renewal", "fd placement"
     >>,
     patterns |-> <<
        <<<<"any">>, <<"lit", "fixed">>, <<"any">>, <<"lit", "deposit">>, <<"any">>>>,   \* .*fixed.*deposit.*
        <<<<"any">>, <<"wb">>, <<"lit", "fd">>, <<"wb">>, <<"any">>, <<"lit", "booking">>, <<"any">>>>   \* .*\bfd\b.*booking.*
     >>],
    [name |-> "Recurring Deposits",
     keywords |-> <<
        "recurring deposit", "rd", "rd installment"
     >>,
     patterns |-> <<
        <<<<"any">>, <<"lit", "recurring">>, <<"any">>, <<"lit", "deposit">>, <<"any">>>>,   \* .*recurring.*deposit.*
        <<<<"any">>, <<"wb">>, <<"lit", "rd">>, <<"wb">>, <<"any">>, <<"lit", "install">>, <<"any">>>>   \* .*\brd\b.*install.*
     >>],
    [name |-> "PPF & NPS",
     keywords |-> <<
        "ppf", "public provident", "nps", "national pension", "epf", "pf contribution",
        "provident fund"
     >>,
     patterns |-> <<
        <<<<"any">>, <<"wb">>, <<"lit", "ppf">>, <<"wb">>, <<"any">>>>,   \* .*\bppf\b.*
        <<<<"any">>, <<"wb">>, <<"lit", "nps">>, <<"wb">>, <<"any">>>>,   \* .*\bnps\b.*
        <<<<"any">>, <<"lit", "provident">>, <<"any">>, <<"lit", "fund">>, <<"any">>>>   \* .*provident.*fund.*
     >>]
  >>],
  [name |-> "Insurance", priority |-> 3, subcategories |-> <<
    [name |-> "Life Insurance",
     keywords |-> <<
        "lic", "life insurance", "lic of india", "lic premium", "max life", "hdfc life",
        "icici pru life", "sbi life", "bajaj allianz life", "tata aia", "kotak life",
        "endowment", "money back", "whole life", "ulip"
     >>,
     patterns |-> <<
        <<<<"any">>, <<"wb">>, <<"lit", "lic">>, <<"wb">>, <<"any">>>>,   \* .*\blic\b.*
        <<<<"any">>, <<"lit", "life">>, <<"any">>, <<"lit", "insurance">>, <<"any">>>>,   \* .*life.*insurance.*
        <<<<"any">>, <<"lit", "lic">>, <<"any">>, <<"lit", "premium">>, <<"any">>>>   \* .*lic.*premium.*
     >>],
    [name |-> "Health Insurance",
     keywords |-> <<
        "health insurance", "mediclaim", "medical insurance", "star health", "max bupa",
        "care health", "niva bupa", "aditya birla health", "hdfc ergo health",
        "icici lombard health", "family floater", "health policy"
     >>,
     patterns |-> <<
        <<<<"any">>, <<"lit", "health">>, <<"any">>, <<"lit", "insurance">>, <<"any">>>>,   \* .*health.*insurance.*
        <<<<"any">>, <<"lit", "mediclaim">>, <<"any">>>>   \* .*mediclaim.*
     >>],
    [name |-> "Vehicle Insurance",
     keywords |-> <<
        "car insurance", "motor insurance", "vehicle insurance", "bike insurance",
        "two wheeler insurance", "four wheeler", "comprehensive insurance", "third party",
        "own damage", "acko", "digit insurance", "hdfc ergo motor", "icici lombard motor"
     >>,
     patterns |-> <<
        <<<<"any">>, <<"lit", "car">>, <<"any">>, <<"lit", "insurance">>, <<"any">>>>,   \* .*car.*insurance.*
        <<<<"any">>, <<"lit", "motor">>, <<"any">>, <<"lit", "insurance">>, <<"any">>>>,   \* .*motor.*insurance.*
        <<<<"any">>, <<"lit", "vehicle">>, <<"any">>, <<"lit", "insurance">>, <<"any">>>>   \* .*vehicle.*insurance.*
     >>],
    [name |-> "Term Insurance",
     keywords |-> <<
        "term insurance", "term plan", "term life", "pure term", "aegon", "term cover"
     >>,
     patterns |-> <<
        <<<<"any">>, <<"lit", "term">>, <<"any">>, <<"lit", "insurance">>, <<"any">>>>,   \* .*term.*insurance.*
        <<<<"any">>, <<"lit", "term">>, <<"any">>, <<"lit", "plan">>, <<"any">>>>   \* .*term.*plan.*
     >>],
    [name |-> "General Insurance",
     keywords |-> <<
        "insurance premium", "policy premium", "renewal premium", "home insurance",
        "travel insurance", "accident insurance"
     >>,
     patterns |-> <<
        <<<<"any">>, <<"lit", "insurance">>, <<"any">>, <<"lit", "premium">>, <<"any">>>>,   \* .*insurance.*premium.*
        <<<<"any">>, <<"lit", "policy">>, <<"any">>, <<"lit", "premium">>, <<"any">>>>   \* .*policy.*premium.*
     >>]
  >>],
  [name |-> "Education", priority |-> 4, subcategories |-> <<
    [name |-> "School Fees",
     keywords |-> <<
        "school", "school fee", "school fees", "tuition", "vidyalaya", "academy", "cbse",
        "icse", "state board", "primary school", "high school", "pre-school", "nursery",
        "kindergarten", "play school"
     >>,
     patterns |-> <<
        <<<<"any">>, <<"lit", "school">>, <<"any">>, <<"lit", "fee">>, <<"any">>>>,   \* .*school.*fee.*
        <<<<"any">>, <<"lit", "school">>, <<"any">>>>,   \* .*school.*
        <<<<"any">>, <<"lit", "tuition">>, <<"any">>>>   \* .*tuition.*
     >>],
    [name |-> "College & University",
     keywords |-> <<
        "college", "university", "semester fee", "admission fee", "examination fee",
        "convocation", "degree", "graduation", "post graduation", "mba", "engineering",
        "medical college", "institute", "iit", "iim", "nit", "bits"
     >>,
     patterns |-> <<
        <<<<"any">>, <<"lit", "college">>, <<"any">>, <<"lit", "fee">>, <<"any">>>>,   \* .*college.*fee.*
        <<<<"any">>, <<"lit", "university">>, <<"any">>>>,   \* .*university.*
        <<<<"any">>, <<"lit", "semester">>, <<"any">>>>   \* .*semester.*
     >>],
    [name |-> "Training & Courses",
     keywords |-> <<
        "training", "course", "workshop", "seminar", "certification", "udemy", "coursera",
        "linkedin learning", "skillshare", "upgrad", "simplilearn", "great learning",
        "coding", "bootcamp", "coaching", "classes", "tutorial", "lesson"
     >>,
     patterns |-> <<
        <<<<"any">>, <<"lit", "training">>, <<"any">>>>,   \* .*training.*
        <<<<"any">>, <<"lit", "course">>, <<"any">>, <<"lit", "fee">>, <<"any">>>>,   \* .*course.*fee.*
        <<<<"any">>, <<"lit", "workshop">>, <<"any">>>>   \* .*workshop.*
     >>],
    [name |-> "Coaching & Tuition",
     keywords |-> <<
        "coaching", "tuition", "byjus", "byju", "unacademy", "vedantu", "aakash", "allen",
        "fiitjee", "resonance", "physics wallah", "whitehat", "toppr", "extra class"
     >>,
     patterns |-> <<
        <<<<"any">>, <<"lit", "coaching">>, <<"any">>>>,   \* .*coaching.*
        <<<<"any">>, <<"lit", "byjus">>, <<"any">>>>,   \* .*byjus.*
        <<<<"any">>, <<"lit", "unacademy">>, <<"any">>>>   \* .*unacademy.*
     >>],
    [name |-> "Books & Materials",
     keywords |-> <<
        "book", "books", "textbook", "stationery", "notebook", "study material", "kindle",
        "amazon kindle", "audible"
     >>,
     patterns |-> <<
        <<<<"any">>, <<"lit", "book">>, <<"any">>>>,   \* .*book.*
        <<<<"any">>, <<"lit", "stationery">>, <<"any">>>>   \* .*stationery.*
     >>]
  >>],
  [name |-> "Healthcare", priority |-> 5, subcategories |-> <<
    [name |-> "Hospital",
     keywords |-> <<
        "hospital", "apollo", "fortis", "max hospital", "manipal", "narayana",
        "columbia asia", "medanta", "aiims", "medical center", "healthcare",
        "nursing home", "icu", "surgery", "operation", "treatment", "admission"
     >>,
     patterns |-> <<
        <<<<"any">>, <<"lit", "hospital">>, <<"any">>>>,   \* .*hospital.*
        <<<<"any">>, <<"lit", "apollo">>, <<"any">>>>,   \* .*apollo.*
        <<<<"any">>, <<"lit", "fortis">>, <<"any">>>>   \* .*fortis.*
     >>],
    [name |-> "Clinic & Doctor",
     keywords |-> <<
        "clinic", "doctor", "physician", "consultation", "dr.", "specialist", "opd",
        "checkup", "check-up", "diagnosis", "practo", "docsapp", "lybrate", "portea"
     >>,
     patterns |-> <<
        <<<<"any">>, <<"lit", "clinic">>, <<"any">>>>,   \* .*clinic.*
        <<<<"any">>, <<"lit", "doctor">>, <<"any">>>>,   \* .*doctor.*
        <<<<"any">>, <<"wb">>, <<"lit", "dr.">>, <<"any">>>>   \* .*\bdr\..*
     >>],
    [name |-> "Pharmacy",
     keywords |-> <<
        "pharmacy", "medical", "medicine", "medplus", "apollo pharmacy", "netmeds", "1mg",
        "pharmeasy", "medlife", "chemist", "drug store", "prescription", "tablet",
        "capsule"
     >>,
     patterns |-> <<
        <<<<"any">>, <<"lit", "pharmacy">>, <<"any">>>>,   \* .*pharmacy.*
        <<<<"any">>, <<"lit", "medplus">>, <<"any">>>>,   \* .*medplus.*
        <<<<"any">>, <<"lit", "netmeds">>, <<"any">>>>,   \* .*netmeds.*
        <<<<"any">>, <<"lit", "1mg">>, <<"any">>>>   \* .*1mg.*
     >>],
    [name |-> "Diagnostic & Labs",
     keywords |-> <<
        "lab", "laboratory", "diagnostic", "test", "pathology", "thyrocare", "lal path",
        "srl", "metropolis", "blood test", "x-ray", "scan", "mri", "ct scan", "ultrasound",
        "ecg", "health checkup", "full body", "preventive"
     >>,
     patterns |-> <<
        <<<<"any">>, <<"lit", "lab">>, <<"any">>>>,   \* .*lab.*
        <<<<"any">>, <<"lit", "diagnostic">>, <<"any">>>>,   \* .*diagnostic.*
        <<<<"any">>, <<"lit", "thyrocare">>, <<"any">>>>,   \* .*thyrocare.*
        <<<<"any">>, <<"lit", "pathology">>, <<"any">>>>   \* .*pathology.*
     >>],
    [name |-> "Dental",
     keywords |-> <<
        "dental", "dentist", "tooth", "teeth", "orthodontist", "dental clinic",
        "clove dental", "mydentist", "sabka dentist"
     >>,
     patterns |-> <<
        <<<<"any">>, <<"lit", "dental">>, <<"any">>>>,   \* .*dental.*
        <<<<"any">>, <<"lit", "dentist">>, <<"any">>>>   \* .*dentist.*
     >>],
    [name |-> "Wellness & Fitness",
     keywords |-> <<
        "gym", "fitness", "yoga", "cult", "cult fit", "gold gym", "anytime fitness", "spa",
        "massage", "physiotherapy", "ayurveda", "wellness"
     >>,
     patterns |-> <<
        <<<<"any">>, <<"lit", "gym">>, <<"any">>>>,   \* .*gym.*
        <<<<"any">>, <<"lit", "fitness">>, <<"any">>>>,   \* .*fitness.*
        <<<<"any">>, <<"lit", "cult">>, <<"any">>, <<"lit", "fit">>, <<"any">>>>   \* .*cult.*fit.*
     >>]
  >>],
  [name |-> "Money Transfer", priority |-> 6, subcategories |-> <<
    [name |-> "NEFT Transfer",
     keywords |-> <<
        "neft"
     >>,
     patterns |-> <<
        <<<<"any">>, <<"lit", "neft">>, <<"any">>>>   \* .*neft.*
     >>],
    [name |-> "IMPS Transfer",
     keywords |-> <<
        "imps"
     >>,
     patterns |-> <<
        <<<<"any">>, <<"lit", "imps">>, <<"any">>>>   \* .*imps.*
     >>],
    [name |-> "RTGS Transfer",
     keywords |-> <<
        "rtgs"
     >>,
     patterns |-> <<
        <<<<"any">>, <<"lit", "rtgs">>, <<"any">>>>   \* .*rtgs.*
     >>],
    [name |-> "Bank Transfer",
     keywords |-> <<
        "fund transfer", "bank transfer", "online transfer", "net banking transfer"
     >>,
     patterns |-> <<
        <<<<"any">>, <<"lit", "fund">>, <<"any">>, <<"lit", "transfer">>, <<"any">>>>,   \* .*fund.*transfer.*
        <<<<"any">>, <<"lit", "bank">>, <<"any">>, <<"lit", "transfer">>, <<"any">>>>   \* .*bank.*transfer.*
     >>]
  >>],
  [name |-> "Food & Dining", priority |-> 7, subcategories |-> <<
    [name |-> "Groceries",
     keywords |-> <<
        "grocery", "supermarket", "dmart", "big basket", "bigbasket", "blinkit", "grofers",
        "jiomart", "amazon fresh", "nature basket", "more supermarket", "reliance fresh",
        "spencer", "star bazaar", "vegetables", "fruits", "provisions", "kirana",
        "general store", "departmental", "hypermarket", "spar"
     >>,
     patterns |-> <<
        <<<<"any">>, <<"lit", "grocery">>, <<"any">>>>,   \* .*grocery.*
        <<<<"any">>, <<"lit", "supermarket">>, <<"any">>>>,   \* .*supermarket.*
        <<<<"any">>, <<"lit", "dmart">>, <<"any">>>>,   \* .*dmart.*
        <<<<"any">>, <<"lit", "bigbasket">>, <<"any">>>>   \* .*bigbasket.*
     >>],
    [name |-> "Food Delivery",
     keywords |-> <<
        "swiggy", "zomato", "uber eats", "food panda", "dunzo", "faasos", "box8",
        "behrouz", "eatfit", "freshmenu"
     >>,
     patterns |-> <<
        <<<<"any">>, <<"lit", "swiggy">>, <<"any">>>>,   \* .*swiggy.*
        <<<<"any">>, <<"lit", "zomato">>, <<"any">>>>   \* .*zomato.*
     >>],
    [name |-> "Restaurants",
     keywords |-> <<
        "restaurant", "hotel", "cafe", "dhaba", "food court", "biryani", "chinese",
        "pizza", "burger", "dominos", "pizza hut", "mcdonalds", "kfc", "subway",
        "taco bell", "barbeque nation", "mainland china", "paradise", "dining"
     >>,
     patterns |-> <<
        <<<<"any">>, <<"lit", "restaurant">>, <<"any">>>>,   \* .*restaurant.*
        <<<<"any">>, <<"lit", "dominos">>, <<"any">>>>,   \* .*dominos.*
        <<<<"any">>, <<"lit", "pizza">>, <<"any">>, <<"lit", "hut">>, <<"any">>>>   \* .*pizza.*hut.*
     >>],
    [name |-> "Cafe & Coffee",
     keywords |-> <<
        "starbucks", "ccd", "cafe coffee day", "barista", "costa", "third wave",
        "blue tokai", "coffee", "tea", "chai"
     >>,
     patterns |-> <<
        <<<<"any">>, <<"lit", "starbucks">>, <<"any">>>>,   \* .*starbucks.*
        <<<<"any">>, <<"lit", "cafe">>, <<"any">>, <<"lit", "coffee">>, <<"any">>, <<"lit", "day">>, <<"any">>>>,   \* .*cafe.*coffee.*day.*
        <<<<"any">>, <<"lit", "coffee">>, <<"any">>>>   \* .*coffee.*
     >>]
  >>],
  [name |-> "Shopping", priority |-> 8, subcategories |-> <<
    [name |-> "Online Shopping",
     keywords |-> <<
        "amazon", "flipkart", "myntra", "ajio", "meesho", "snapdeal", "tatacliq", "nykaa",
        "purplle", "mamaearth", "wow", "firstcry", "shopclues", "paytm mall", "pepperfry",
        "urban ladder"
     >>,
     patterns |-> <<
        <<<<"any">>, <<"lit", "amazon">>, <<"not_ahead", <<<<"any">>, <<"lit", "prime">>>>>>, <<"any">>>>,   \* .*amazon(?!.*prime).*
        <<<<"any">>, <<"lit", "flipkart">>, <<"any">>>>,   \* .*flipkart.*
        <<<<"any">>, <<"lit", "myntra">>, <<"any">>>>   \* .*myntra.*
     >>],
    [name |-> "Electronics",
     keywords |-> <<
        "croma", "reliance digital", "vijay sales", "mobile", "laptop", "computer",
        "electronic", "gadget", "samsung", "apple store", "mi store", "oneplus",
        "headphone", "earphone", "camera"
     >>,
     patterns |-> <<
        <<<<"any">>, <<"lit", "croma">>, <<"any">>>>,   \* .*croma.*
        <<<<"any">>, <<"lit", "reliance">>, <<"any">>, <<"lit", "digital">>, <<"any">>>>,   \* .*reliance.*digital.*
        <<<<"any">>, <<"lit", "electronic">>, <<"any">>>>   \* .*electronic.*
     >>],
    [name |-> "Clothing & Fashion",
     keywords |-> <<
        "max", "lifestyle", "pantaloons", "westside", "shoppers stop", "zara", "h&m",
        "levis", "wrangler", "peter england", "van heusen", "allen solly", "clothing",
        "garment", "apparel"
     >>,
     patterns |-> <<
        <<<<"any">>, <<"lit", "lifestyle">>, <<"any">>>>,   \* .*lifestyle.*
        <<<<"any">>, <<"lit", "pantaloons">>, <<"any">>>>,   \* .*pantaloons.*
        <<<<"any">>, <<"lit", "shoppers">>, <<"any">>, <<"lit", "stop">>, <<"any">>>>   \* .*shoppers.*stop.*
     >>],
    [name |-> "Home & Furniture",
     keywords |-> <<
        "ikea", "home centre", "hometown", "pepperfry", "urban ladder", "godrej interio",
        "nilkamal", "furniture", "home decor", "mattress", "bedsheet", "curtain"
     >>,
     patterns |-> <<
        <<<<"any">>, <<"lit", "ikea">>, <<"any">>>>,   \* .*ikea.*
        <<<<"any">>, <<"lit", "pepperfry">>, <<"any">>>>,   \* .*pepperfry.*
        <<<<"any">>, <<"lit", "urban">>, <<"any">>, <<"lit", "ladder">>, <<"any">>>>   \* .*urban.*ladder.*
     >>]
  >>],
  [name |-> "Transportation", priority |-> 9, subcategories |-> <<
    [name |-> "Fuel",
     keywords |-> <<
        "petrol", "diesel", "fuel", "hp", "bharat petroleum", "bpcl", "indian oil", "iocl",
        "shell", "reliance petrol", "petrol pump", "gas station", "filling station", "cng"
     >>,
     patterns |-> <<
        <<<<"any">>, <<"lit", "petrol">>, <<"any">>>>,   \* .*petrol.*
        <<<<"any">>, <<"lit", "diesel">>, <<"any">>>>,   \* .*diesel.*
        <<<<"any">>, <<"lit", "fuel">>, <<"any">>>>,   \* .*fuel.*
        <<<<"any">>, <<"wb">>, <<"lit", "hp">>, <<"wb">>, <<"any">>, <<"lit", "petrol">>, <<"any">>>>   \* .*\bhp\b.*petrol.*
     >>],
    [name |-> "Taxi & Rideshare",
     keywords |-> <<
        "uber", "ola", "rapido", "taxi", "cab", "auto", "rickshaw", "meru", "fasttrack",
        "airport taxi"
     >>,
     patterns |-> <<
        <<<<"any">>, <<"lit", "uber">>, <<"any">>>>,   \* .*uber.*
        <<<<"any">>, <<"wb">>, <<"lit", "ola">>, <<"wb">>, <<"any">>>>,   \* .*\bola\b.*
        <<<<"any">>, <<"lit", "rapido">>, <<"any">>>>,   \* .*rapido.*
        <<<<"any">>, <<"lit", "taxi">>, <<"any">>>>   \* .*taxi.*
     >>],
    [name |-> "Public Transport",
     keywords |-> <<
        "metro", "bus", "train", "irctc", "railway", "bmtc", "best", "dtc", "ticket",
        "pass", "travel card"
     >>,
     patterns |-> <<
        <<<<"any">>, <<"lit", "metro">>, <<"any">>>>,   \* .*metro.*
        <<<<"any">>, <<"lit", "irctc">>, <<"any">>>>,   \* .*irctc.*
        <<<<"any">>, <<"lit", "railway">>, <<"any">>>>   \* .*railway.*
     >>],
    [name |-> "Parking & Toll",
     keywords |-> <<
        "parking", "toll", "fastag", "nhai", "expressway", "highway"
     >>,
     patterns |-> <<
        <<<<"any">>, <<"lit", "parking">>, <<"any">>>>,   \* .*parking.*
        <<<<"any">>, <<"lit", "toll">>, <<"any">>>>,   \* .*toll.*
        <<<<"any">>, <<"lit", "fastag">>, <<"any">>>>   \* .*fastag.*
     >>],
    [name |-> "Travel & Booking",
     keywords |-> <<
        "makemytrip", "goibibo", "cleartrip", "yatra", "redbus", "abhibus", "ixigo",
        "flight", "air india", "indigo", "spicejet", "vistara", "airasia"
     >>,
     patterns |-> <<
        <<<<"any">>, <<"lit", "makemytrip">>, <<"any">>>>,   \* .*makemytrip.*
        <<<<"any">>, <<"lit", "goibibo">>, <<"any">>>>,   \* .*goibibo.*
        <<<<"any">>, <<"lit", "flight">>, <<"any">>>>   \* .*flight.*
     >>]
  >>],
  [name |-> "Utilities", priority |-> 10, subcategories |-> <<
    [name |-> "Electricity",
     keywords |-> <<
        "electricity", "electric", "bescom", "bses", "tata power", "adani electricity",
        "reliance energy", "power bill", "eb bill", "mseb", "tneb", "wbsedcl"
     >>,
     patterns |-> <<
        <<<<"any">>, <<"lit", "electricity">>, <<"any">>>>,   \* .*electricity.*
        <<<<"any">>, <<"lit", "bescom">>, <<"any">>>>,   \* .*bescom.*
        <<<<"any">>, <<"lit", "power">>, <<"any">>, <<"lit", "bill">>, <<"any">>>>   \* .*power.*bill.*
     >>],
    [name |-> "Water",
     keywords |-> <<
        "water", "bwssb", "water bill", "water supply", "municipal water"
     >>,
     patterns |-> <<
        <<<<"any">>, <<"lit", "water">>, <<"any">>, <<"lit", "bill">>, <<"any">>>>,   \* .*water.*bill.*
        <<<<"any">>, <<"lit", "bwssb">>, <<"any">>>>   \* .*bwssb.*
     >>],
    [name |-> "Internet & Broadband",
     keywords |-> <<
        "internet", "broadband", "wifi", "act fibernet", "jio fiber", "airtel xstream",
        "hathway", "tikona", "you broadband", "excitel", "tata sky broadband", "spectra"
     >>,
     patterns |-> <<
        <<<<"any">>, <<"lit", "internet">>, <<"any">>>>,   \* .*internet.*
        <<<<"any">>, <<"lit", "broadband">>, <<"any">>>>,   \* .*broadband.*
        <<<<"any">>, <<"lit", "wifi">>, <<"any">>>>   \* .*wifi.*
     >>],
    [name |-> "Mobile & Phone",
     keywords |-> <<
        "mobile", "phone", "airtel", "jio", "vodafone", "vi", "bsnl", "recharge",
        "prepaid", "postpaid", "mobile bill", "phone bill"
     >>,
     patterns |-> <<
        <<<<"any">>, <<"lit", "mobile">>, <<"any">>, <<"lit", "bill">>, <<"any">>>>,   \* .*mobile.*bill.*
        <<<<"any">>, <<"lit", "phone">>, <<"any">>, <<"lit", "bill">>, <<"any">>>>,   \* .*phone.*bill.*
        <<<<"any">>, <<"lit", "recharge">>, <<"any">>>>   \* .*recharge.*
     >>],
    [name |-> "Gas & LPG",
     keywords |-> <<
        "gas", "lpg", "indane", "bharat gas", "hp gas", "piped gas", "png", "igl",
        "mahanagar gas", "cooking gas", "cylinder"
     >>,
     patterns |-> <<
        <<<<"any">>, <<"wb">>, <<"lit", "lpg">>, <<"wb">>, <<"any">>>>,   \* .*\blpg\b.*
        <<<<"any">>, <<"lit", "gas">>, <<"any">>, <<"lit", "cylinder">>, <<"any">>>>,   \* .*gas.*cylinder.*
        <<<<"any">>, <<"lit", "indane">>, <<"any">>>>   \* .*indane.*
     >>],
    [name |-> "DTH & Cable",
     keywords |-> <<
        "dth", "tata sky", "dish tv", "airtel dth", "videocon d2h", "sun direct", "cable",
        "tv recharge"
     >>,
     patterns |-> <<
        <<<<"any">>, <<"lit", "tata">>, <<"any">>, <<"lit", "sky">>, <<"any">>>>,   \* .*tata.*sky.*
        <<<<"any">>, <<"lit", "dish">>, <<"any">>, <<"lit", "tv">>, <<"any">>>>,   \* .*dish.*tv.*
        <<<<"any">>, <<"wb">>, <<"lit", "dth">>, <<"wb">>, <<"any">>>>   \* .*\bdth\b.*
     >>]
  >>],
  [name |-> "Entertainment", priority |-> 11, subcategories |-> <<
    [name |-> "Streaming Services",
     keywords |-> <<
        "netflix", "amazon prime", "hotstar", "disney", "sony liv", "zee5", "voot",
        "jio cinema", "mubi", "apple tv", "youtube premium", "spotify", "gaana", "wynk",
        "amazon music", "apple music"
     >>,
     patterns |-> <<
        <<<<"any">>, <<"lit", "netflix">>, <<"any">>>>,   \* .*netflix.*
        <<<<"any">>, <<"lit", "hotstar">>, <<"any">>>>,   \* .*hotstar.*
        <<<<"any">>, <<"lit", "prime">>, <<"any">>, <<"lit", "video">>, <<"any">>>>,   \* .*prime.*video.*
        <<<<"any">>, <<"lit", "spotify">>, <<"any">>>>   \* .*spotify.*
     >>],
    [name |-> "Movies & Theatre",
     keywords |-> <<
        "pvr", "inox", "cinepolis", "carnival", "bookmyshow", "paytm movies", "movie",
        "cinema", "multiplex", "theatre", "film"
     >>,
     patterns |-> <<
        <<<<"any">>, <<"lit", "pvr">>, <<"any">>>>,   \* .*pvr.*
        <<<<"any">>, <<"lit", "inox">>, <<"any">>>>,   \* .*inox.*
        <<<<"any">>, <<"lit", "bookmyshow">>, <<"any">>>>,   \* .*bookmyshow.*
        <<<<"any">>, <<"lit", "movie">>, <<"any">>>>   \* .*movie.*
     >>],
    [name |-> "Gaming",
     keywords |-> <<
        "playstation", "xbox", "steam", "epic games", "game", "gaming", "pubg", "valorant",
        "google play games"
     >>,
     patterns |-> <<
        <<<<"any">>, <<"lit", "playstation">>, <<"any">>>>,   \* .*playstation.*
        <<<<"any">>, <<"lit", "xbox">>, <<"any">>>>,   \* .*xbox.*
        <<<<"any">>, <<"lit", "steam">>, <<"any">>>>   \* .*steam.*
     >>],
    [name |-> "Events & Activities",
     keywords |-> <<
        "event", "concert", "show", "exhibition", "museum", "amusement park", "theme park",
        "wonderla", "imagica"
     >>,
     patterns |-> <<
        <<<<"any">>, <<"lit", "concert">>, <<"any">>>>,   \* .*concert.*
        <<<<"any">>, <<"lit", "event">>, <<"any">>, <<"lit", "ticket">>, <<"any">>>>   \* .*event.*ticket.*
     >>]
  >>],
  [name |-> "Housing", priority |-> 12, subcategories |-> <<
    [name |-> "Rent",
     keywords |-> <<
        "rent", "house rent", "flat rent", "room rent", "pg rent", "rental",
        "monthly rent", "landlord"
     >>,
     patterns |-> <<
        <<<<"any">>, <<"lit", "rent">>, <<"any">>>>,   \* .*rent.*
        <<<<"any">>, <<"lit", "landlord">>, <<"any">>>>   \* .*landlord.*
     >>],
    [name |-> "Maintenance",
     keywords |-> <<
        "maintenance", "society", "apartment", "flat maintenance", "building maintenance",
        "society fee", "maintenance charge"
     >>,
     patterns |-> <<
        <<<<"any">>, <<"lit", "maintenance">>, <<"any">>>>,   \* .*maintenance.*
        <<<<"any">>, <<"lit", "society">>, <<"any">>, <<"lit", "fee">>, <<"any">>>>   \* .*society.*fee.*
     >>],
    [name |-> "Home Services",
     keywords |-> <<
        "urban company", "urbanclap", "housejoy", "plumber", "electrician", "carpenter",
        "pest control", "cleaning", "deep cleaning", "ac service", "appliance repair"
     >>,
     patterns |-> <<
        <<<<"any">>, <<"lit", "urban">>, <<"any">>, <<"lit", "company">>, <<"any">>>>,   \* .*urban.*company.*
        <<<<"any">>, <<"lit", "home">>, <<"any">>, <<"lit", "service">>, <<"any">>>>   \* .*home.*service.*
     >>]
  >>],
  [name |-> "Other", priority |-> 99, subcategories |-> <<
    [name |-> "ATM Withdrawal",
     keywords |-> <<
        "atm", "cash withdrawal", "atw", "atm/cash"
     >>,
     patterns |-> <<
        <<<<"any">>, <<"lit", "atm">>, <<"any">>>>,   \* .*atm.*
        <<<<"any">>, <<"lit", "cash">>, <<"any">>, <<"lit", "withdrawal">>, <<"any">>>>   \* .*cash.*withdrawal.*
     >>],
    [name |-> "Bank Charges",
     keywords |-> <<
        "bank charge", "service charge", "annual fee", "sms charge"
     >>,
     patterns |-> <<
        <<<<"any">>, <<"lit", "bank">>, <<"any">>, <<"lit", "charge">>, <<"any">>>>,   \* .*bank.*charge.*
        <<<<"any">>, <<"lit", "service">>, <<"any">>, <<"lit", "charge">>, <<"any">>>>   \* .*service.*charge.*
     >>],
    [name |-> "Uncategorized",
     keywords |-> <<
     >>,
     patterns |-> <<
     >>]
  >>]
>>

\* KNOWN_MERCHANTS, in the order of the dict.
KNOWN_MERCHANTS == <<
  [name |-> "zerodha", category |-> "Investments", subcategory |-> "Stocks & Trading"],
  [name |-> "groww", category |-> "Investments", subcategory |-> "Stocks & Trading"],
  [name |-> "upstox", category |-> "Investments", subcategory |-> "Stocks & Trading"],
  [name |-> "razorpay", category |-> "Investments", subcategory |-> "Stocks & Trading"],
  [name |-> "razpbse", category |-> "Investments", subcategory |-> "Stocks & Trading"],
  [name |-> "swiggy", category |-> "Food & Dining", subcategory |-> "Food Delivery"],
  [name |-> "zomato", category |-> "Food & Dining", subcategory |-> "Food Delivery"],
  [name |-> "bigbasket", category |-> "Food & Dining", subcategory |-> "Groceries"],
  [name |-> "blinkit", category |-> "Food & Dining", subcategory |-> "Groceries"],
  [name |-> "dmart", category |-> "Food & Dining", subcategory |-> "Groceries"],
  [name |-> "amazon", category |-> "Shopping", subcategory |-> "Online Shopping"],
  [name |-> "flipkart", category |-> "Shopping", subcategory |-> "Online Shopping"],
  [name |-> "myntra", category |-> "Shopping", subcategory |-> "Online Shopping"],
  [name |-> "netflix", category |-> "Entertainment", subcategory |-> "Streaming Services"],
  [name |-> "hotstar", category |-> "Entertainment", subcategory |-> "Streaming Services"],
  [name |-> "spotify", category |-> "Entertainment", subcategory |-> "Streaming Services"],
  [name |-> "uber", category |-> "Transportation", subcategory |-> "Taxi & Rideshare"],
  [name |-> "ola cabs", category |-> "Transportation", subcategory |-> "Taxi & Rideshare"],
  [name |-> "rapido", category |-> "Transportation", subcategory |-> "Taxi & Rideshare"]
>>

COMMON_INDIAN_FIRST_NAMES == {
  "lakshmi", "laksmi", "priya", "anjali", "pooja", "puja", "divya", "sneha", "kavitha",
  "kavita", "meena", "sunita", "anita", "geeta", "gita", "rekha", "radha", "sita", "padma",
  "kamala", "shanti", "savita", "usha", "lata", "asha", "nisha", "ritu", "neha", "swati",
  "pallavi", "shalini", "deepa", "rani", "devi", "sarita", "mamta", "jyoti", "shobha",
  "vasudha", "bhavna", "archana", "supriya", "sangita", "sangeeta", "rashmi", "uma",
  "vani", "vidya", "maya", "suman", "kalpana", "sarala", "renuka", "aruna", "ravi",
  "kumar", "raj", "suresh", "ramesh", "mahesh", "ganesh", "naresh", "dinesh", "rajesh",
  "mukesh", "rakesh", "sunil", "anil", "vijay", "sanjay", "ajay", "amit", "sumit", "rohit",
  "mohit", "ankit", "nikhil", "rahul", "deepak", "ashok", "vinod", "pramod", "manoj",
  "arun", "varun", "kiran", "mohan", "sohan", "gopal", "shyam", "krishna", "venkat",
  "srinivas", "satish", "girish", "harish", "rajendra", "surendra", "narendra", "devendra",
  "jitendra", "mahendra", "yogendra", "birendra", "upendra", "ravindra", "sachin", "vikas",
  "vivek", "alok", "ashish", "manish", "puneet", "lalit", "gaurav", "pankaj", "saurabh",
  "prashant", "neeraj", "sandeep", "kuldeep", "jagdish", "satya", "prakash", "subhash",
  "umesh", "nilesh", "hitesh"
}

BUSINESS_SUFFIXES == {
  "jewellers", "jewellery", "jewelry", "gold", "silvers", "stores", "store", "shop",
  "mart", "bazaar", "bazar", "enterprises", "enterprise", "pvt", "ltd", "limited",
  "private", "industries", "industry", "traders", "trading", "trade", "services",
  "service", "solutions", "systems", "hospital", "clinic", "pharmacy", "medical",
  "medicals", "restaurant", "hotel", "cafe", "foods", "food", "electronics", "electric",
  "electricals", "automobiles", "motors", "auto", "textiles", "textile", "fabrics",
  "agencies", "agency", "consultants", "consulting", "academy", "institute", "school",
  "college", "university", "bank", "finance", "financial", "insurance", "builders",
  "constructions", "realty", "properties", "communications", "telecom", "mobile",
  "mobiles", "labs", "laboratory", "laboratories", "diagnostic", "diagnostics", "chemist",
  "druggist", "pharma", "supermarket", "hypermarket", "retail", "wholesale",
  "international", "national", "global", "india", "corp", "corporation", "inc", "co",
  "company"
}

(***************************************************************************)
(* Results                                                                 *)
(***************************************************************************)
Result(category, subcategory, confidence, reason) ==
    [raised |-> FALSE, category |-> category, subcategory |-> subcategory,
     confidence |-> confidence, reason |-> reason]

\* The call ended with an exception of this type instead of a result.
Raised(exception) ==
    [raised |-> TRUE, category |-> "", subcategory |-> "", confidence |-> "",
     reason |-> exception]

\* An Optional return: None, or a value.
None == [found |-> FALSE, value |-> ""]

Some(v) == [found |-> TRUE, value |-> v]

(***************************************************************************)
(* Personal name detection                                                 *)
(***************************************************************************)
\* word.replace('mr', '').replace('mrs', '').replace('ms', '').replace('dr', '').strip()
clean_word(word) ==
    Strip(RemoveAll(RemoveAll(RemoveAll(RemoveAll(word, "mr"), "mrs"), "ms"), "dr"))

is_personal_name(lookup, text) ==
    LET text_lower == Strip(Lower(text))
        words == Split(text_lower)
        n == Len(words)
    IN  IF \E i \in 1..n : words[i] \in BUSINESS_SUFFIXES THEN FALSE
        ELSE IF \E merchant \in KNOWN_MERCHANT_NAMES(lookup) : Contains(merchant, text_lower)
             THEN FALSE
        ELSE IF \E k \in 1..Len(KNOWN_MERCHANTS) : Contains(KNOWN_MERCHANTS[k].name, text_lower)
             THEN FALSE
        ELSE IF \E i \in 1..n : clean_word(words[i]) \in COMMON_INDIAN_FIRST_NAMES THEN TRUE
        ELSE IF n <= 3 /\ ~HasDigit(text_lower)
             THEN \/ n = 1 /\ Len(words[1]) >= 3
                  \/ n = 2 /\ \A i \in 1..n : Len(words[i]) >= 2
             ELSE FALSE

(***************************************************************************)
(* RefinedCategorizer                                                      *)
(***************************************************************************)
\* sorted(keys, key=len, reverse=True): the place of entry i in the stable sort.
LenRank(lookup, i) ==
    1 + Cardinality({j \in 1..Len(lookup) :
                        \/ Len(lookup[j].name) > Len(lookup[i].name)
                        \/ Len(lookup[j].name) = Len(lookup[i].name) /\ j < i})

sorted_merchants(lookup) ==
    [r \in 1..Len(lookup) |-> lookup[CHOOSE i \in 1..Len(lookup) : LenRank(lookup, i) = r]]

\* re.search(r'\b' + re.escape(merchant) + r'\b', desc_lower)
WholeWordIn(merchant, s) ==
    \E i \in 1..(Len(s) - Len(merchant) + 1) :
        /\ SubSeq(s, i, i + Len(merchant) - 1) = merchant
        /\ WordBoundary(s, i)
        /\ WordBoundary(s, i + Len(merchant))

\* Whether the loop of _check_merchant_database returns at this merchant.
merchant_matches(merchant, desc_lower) ==
    IF Len(merchant) <= 2 THEN FALSE
    ELSE IF Len(merchant) <= 4 THEN WholeWordIn(merchant, desc_lower)
    ELSE Contains(merchant, desc_lower)

check_merchant_database(lookup, description) ==
    LET desc_lower == Lower(description)
        sorted == sorted_merchants(lookup)
        hits == {r \in 1..Len(sorted) : merchant_matches(sorted[r].name, desc_lower)}
    IN  IF hits = {} THEN None
        ELSE LET m == sorted[Min(hits)]
             IN  Some(Result(m.category, m.subcategory, "high",
                             "Merchant database: " \o m.name))

\* re.search(r'\bTO\s+([A-Z][A-Z\s]+)$', desc_upper): the starts of group 1 over
\* the matches; the match found is the leftmost, and \s+ is greedy, so the group
\* starts at the first letter after the marker.
IsUpper(c) == c \in UpperChars

ToGroupStarts(s) ==
    {g \in 1..Len(s) :
        /\ IsUpper(CharAt(s, g))
        /\ g < Len(s)
        /\ \A m \in (g + 1)..Len(s) : IsUpper(CharAt(s, m)) \/ IsSpace(CharAt(s, m))
        /\ \E t \in 1..(g - 3) :
              /\ SubSeq(s, t, t + 1) = "TO"
              /\ WordBoundary(s, t)
              /\ \A m \in (t + 2)..(g - 1) : IsSpace(CharAt(s, m))}

extract_payee_name(description) ==
    LET desc_upper == Upper(description)
        starts == ToGroupStarts(desc_upper)
    IN  IF starts # {}
        THEN Some(Strip(SubSeq(desc_upper, Min(starts), Len(desc_upper))))
        ELSE IF Contains("/", desc_upper)
        THEN LET parts == SplitSep(desc_upper, "/")
                 last_part == Strip(parts[Len(parts)])
             IN  IF last_part # "" /\ ~IsDigitStr(last_part) /\ Len(last_part) > 2
                 THEN Some(last_part)
                 ELSE None
        ELSE None

\* The keyword loop, then the pattern loop, of one subcategory: the first
\* keyword of the list the narration contains, else whether a pattern matches.
subcategory_match(subcat_info, description) ==
    LET keywords == subcat_info.keywords
        patterns == subcat_info.patterns
        contained == {k \in 1..Len(keywords) : Contains(keywords[k], description)}
    IN  IF contained # {} THEN [kind |-> "keyword", keyword |-> keywords[Min(contained)]]
        ELSE IF \E p \in 1..Len(patterns) : Search(patterns[p], description)
        THEN [kind |-> "pattern", keyword |-> ""]
        ELSE [kind |-> "none", keyword |-> ""]

\* The first subcategory from s on, in declared order, with a match.
RECURSIVE scan_subcategories(_, _, _, _)
scan_subcategories(cat_name, subcategories, s, description) ==
    IF s > Len(subcategories) THEN None
    ELSE LET m == subcategory_match(subcategories[s], description)
         IN  IF m.kind = "keyword"
             THEN Some([category |-> cat_name, subcategory |-> subcategories[s].name,
                        kind |-> "keyword", keyword |-> m.keyword])
             ELSE IF m.kind = "pattern"
             THEN Some([category |-> cat_name, subcategory |-> subcategories[s].name,
                        kind |-> "pattern", keyword |-> ""])
             ELSE scan_subcategories(cat_name, subcategories, s + 1, description)

categories_index(name) == CHOOSE c \in 1..Len(REFINED_CATEGORIES) : REFINED_CATEGORIES[c].name = name

\* categorize_income with a pattern hit reported like a keyword hit.
categorize_income_all_high(description) ==
    LET income_cat == REFINED_CATEGORIES[categories_index("Income")]
        hit == scan_subcategories("Income", income_cat.subcategories, 1, description)
    IN  IF hit.found /\ hit.value.kind = "keyword"
        THEN Result("Income", hit.value.subcategory, "high",
                    "Income keyword: " \o hit.value.keyword)
        ELSE IF hit.found
        THEN Result("Income", hit.value.subcategory, "high", "Income pattern match")
        ELSE Result("Income", "Other Income", "low", "Default income category")

categorize_income(description) ==
    LET income_cat == REFINED_CATEGORIES[categories_index("Income")]
        hit == scan_subcategories("Income", income_cat.subcategories, 1, description)
    IN  IF hit.found /\ hit.value.kind = "keyword"
        THEN Result("Income", hit.value.subcategory, "high",
                    "Income keyword: " \o hit.value.keyword)
        ELSE IF hit.found
        THEN Result("Income", hit.value.subcategory, "medium", "Income pattern match")
        ELSE Result("Income", "Other Income", "low", "Default income category")

\* PriorityRank with the sort reversed (reverse=True): the greatest priority first.
PriorityRankReversed(c) ==
    1 + Cardinality({j \in 1..Len(REFINED_CATEGORIES) :
                        \/ REFINED_CATEGORIES[j].priority > REFINED_CATEGORIES[c].priority
                        \/ /\ REFINED_CATEGORIES[j].priority = REFINED_CATEGORIES[c].priority
                           /\ j < c})

\* sorted(self.categories.items(), key=priority): the place of category c in the
\* stable sort.
PriorityRank(c) ==
    1 + Cardinality({j \in 1..Len(REFINED_CATEGORIES) :
                        \/ REFINED_CATEGORIES[j].priority < REFINED_CATEGORIES[c].priority
                        \/ /\ REFINED_CATEGORIES[j].priority = REFINED_CATEGORIES[c].priority
                           /\ j < c})

sorted_categories ==
    [r \in 1..Len(REFINED_CATEGORIES) |->
        REFINED_CATEGORIES[CHOOSE c \in 1..Len(REFINED_CATEGORIES) : PriorityRank(c) = r]]

SkippedCategories == {"Income", "Money Transfer", "Other"}

\* The loop over the sorted categories, from place c on.
RECURSIVE scan_categories(_, _)
scan_categories(c, description) ==
    IF c > Len(sorted_categories) THEN None
    ELSE IF sorted_categories[c].name \in SkippedCategories
         THEN scan_categories(c + 1, description)
         ELSE LET hit == scan_subcategories(sorted_categories[c].name,
                                            sorted_categories[c].subcategories, 1, description)
              IN  IF hit.found THEN hit ELSE scan_categories(c + 1, description)

\* categorize_expense with the fallback testing the atm marker alone.
categorize_expense_atm_only(description) ==
    LET hit == scan_categories(1, description)
    IN  IF hit.found /\ hit.value.kind = "keyword"
        THEN Result(hit.value.category, hit.value.subcategory, "high",
                    "Keyword match: " \o hit.value.keyword)
        ELSE IF hit.found
        THEN Result(hit.value.category, hit.value.subcategory, "medium", "Pattern match")
        ELSE IF Contains("atm", description)
        THEN Result("Other", "ATM Withdrawal", "high", "ATM/Cash withdrawal detected")
        ELSE Result("Other", "Uncategorized", "low", "No category match found")

categorize_expense(description) ==
    LET hit == scan_categories(1, description)
    IN  IF hit.found /\ hit.value.kind = "keyword"
        THEN Result(hit.value.category, hit.value.subcategory, "high",
                    "Keyword match: " \o hit.value.keyword)
        ELSE IF hit.found
        THEN Result(hit.value.category, hit.value.subcategory, "medium", "Pattern match")
        ELSE IF Contains("atm", description) \/ Contains("cash withdrawal", description)
        THEN Result("Other", "ATM Withdrawal", "high", "ATM/Cash withdrawal detected")
        ELSE Result("Other", "Uncategorized", "low", "No category match found")

\* transfer_keywords without 'net banking'.
transfer_keywords_short == <<"neft", "imps", "rtgs", "fund transfer">>

transfer_keywords == <<"neft", "imps", "rtgs", "fund transfer", "net banking">>

is_money_transfer(lookup, desc_lower) ==
    IF ~\E k \in 1..Len(transfer_keywords) : Contains(transfer_keywords[k], desc_lower)
    THEN FALSE
    ELSE IF check_merchant_database(lookup, desc_lower).found THEN FALSE
    ELSE IF \E k \in 1..Len(KNOWN_MERCHANTS) : Contains(KNOWN_MERCHANTS[k].name, desc_lower)
    THEN FALSE
    ELSE TRUE

\* categorize_transfer with the confidence of a pattern hit.
categorize_transfer_medium(desc_lower) ==
    LET subcat == IF Contains("neft", desc_lower) THEN "NEFT Transfer"
                  ELSE IF Contains("imps", desc_lower) THEN "IMPS Transfer"
                  ELSE IF Contains("rtgs", desc_lower) THEN "RTGS Transfer"
                  ELSE "Bank Transfer"
    IN  Result("Money Transfer", subcat, "medium", "Identified as personal money transfer")

categorize_transfer(desc_lower) ==
    LET subcat == IF Contains("neft", desc_lower) THEN "NEFT Transfer"
                  ELSE IF Contains("imps", desc_lower) THEN "IMPS Transfer"
                  ELSE IF Contains("rtgs", desc_lower) THEN "RTGS Transfer"
                  ELSE "Bank Transfer"
    IN  Result("Money Transfer", subcat, "high", "Identified as personal money transfer")

\* Step 5 of categorize: the first entry of KNOWN_MERCHANTS, in the order of the
\* dict, whose name the narration contains.
quick_lookup(desc_lower) ==
    LET hits == {k \in 1..Len(KNOWN_MERCHANTS) : Contains(KNOWN_MERCHANTS[k].name, desc_lower)}
    IN  IF hits = {} THEN None
        ELSE LET m == KNOWN_MERCHANTS[Min(hits)]
             IN  Some(Result(m.category, m.subcategory, "high", "Known merchant: " \o m.name))

\* categorize_outflow with the transfer checks of step 6 moved before the
\* merchant checks of steps 4 and 5.
categorize_outflow_transfer_first(lookup, description) ==
    LET desc_lower == Strip(Lower(description))
        merchant_result == check_merchant_database(lookup, desc_lower)
        quick == quick_lookup(desc_lower)
        payee_name == extract_payee_name(description)
    IN  IF payee_name.found /\ payee_name.value # ""
           /\ is_personal_name(lookup, payee_name.value)
        THEN categorize_transfer(desc_lower)
        ELSE IF merchant_result.found THEN merchant_result.value
        ELSE IF quick.found THEN quick.value
        ELSE IF is_money_transfer(lookup, desc_lower) THEN categorize_transfer(desc_lower)
        ELSE categorize_expense(desc_lower)

\* Steps 4 to 7 of categorize, for a narration (a str) and an amount not above 0.
categorize_outflow(lookup, description) ==
    LET desc_lower == Strip(Lower(description))
        merchant_result == check_merchant_database(lookup, desc_lower)
        quick == quick_lookup(desc_lower)
        payee_name == extract_payee_name(description)
    IN  IF merchant_result.found THEN merchant_result.value
        ELSE IF quick.found THEN quick.value
        ELSE IF payee_name.found /\ payee_name.value # ""
                /\ is_personal_name(lookup, payee_name.value)
        THEN categorize_transfer(desc_lower)
        ELSE IF is_money_transfer(lookup, desc_lower) THEN categorize_transfer(desc_lower)
        ELSE categorize_expense(desc_lower)

(***************************************************************************)
(* Inputs                                                                  *)
(***************************************************************************)
\* The narrations the callers pass, as the bank writes them.
Narrations == {
  "", "  ", "some desc", " Some Desc ", "RAVI KUMAR TRANSFER", "TRANSFER TO RAVI",
  "UPI/123/ZOMATO", "ZOMATO/123/RAVI KUMAR", "NEFT ZOMATO", "AMAZON PRIME",
  "NEFT/REF123/TO LAKSHMI", "IMPS/123/RAVI KUMAR", "RTGS 9981", "FUND TRANSFER 7",
  "NET BANKING 42", "UPI/42/QZX", "UPI/123/APOLLO HOSPITAL",
  "SALARY CREDIT MAY", "INTPD 77", "REFUND 12",
  "TUBERCULOSIS", "VI RECHARGE", "UPI/123/GRT JEWELLERS", "PAID GRT 55", "OLA 12",
  "COLA SHOP", "JIOMART", "SCHOOL BUS FEE", "GOLD PALACE 22", "ATM WDL 500",
  "SOME ZOMATO 5", "CASH WITHDRAWAL 9"
}

\* A description argument: a str, or None.
Str(text) == [none |-> FALSE, text |-> text]

NoneDescription == [none |-> TRUE, text |-> ""]

Descriptions == {Str(n) : n \in Narrations} \cup {NoneDescription}

\* An amount argument: a number, or a value that is no number (a str, None).
Number(v) == [numeric |-> TRUE, value |-> v]

NotANumber == [numeric |-> FALSE, value |-> 0]

Amounts == {Number(-100), Number(0), Number(50000), NotANumber}

\* What learn is called with.
LearnDescriptions == {Str("some desc"), Str("  "), NoneDescription}

LearnCategories == {<<"Education", "Books">>, <<"Shopping", "Online Shopping">>}

MatchTypes == {"keyword", "exact"}

\* How many learn calls a behaviour makes.
MaxLearn == 2

(***************************************************************************)
(* categorize and learn                                                    *)
(***************************************************************************)
\* Steps 4 to 7 and step 3 depend on the tables and the narration alone: they
\* are computed once for every source and narration.
OutflowResult == [source \in MerchantSources, n \in Narrations |->
                     categorize_outflow(MERCHANT_LOOKUP[source], n)]

\* description.lower().strip(), computed once for every narration.
desc_lower_of == [n \in Narrations |-> Strip(Lower(n))]

IncomeResult == [n \in Narrations |-> categorize_income(desc_lower_of[n])]

\* {'exact_matches': {}, 'keywords': {}, 'patterns': {}}; each dict a sequence of
\* [name, category, subcategory] in insertion order (learned_at, the time of the
\* call, is not kept: no operation reads it).
EmptyMappings == [exact_matches |-> << >>, keywords |-> << >>, patterns |-> << >>]

\* categorize with the keyword map consulted before the exact-match map.
categorize_keywords_first(mappings, source, description, amount) ==
    IF description.none THEN Raised("AttributeError")
    ELSE LET desc_lower == desc_lower_of[description.text]
             exact == {i \in 1..Len(mappings.exact_matches) :
                          mappings.exact_matches[i].name = desc_lower}
             keyword == {i \in 1..Len(mappings.keywords) :
                            Contains(mappings.keywords[i].name, desc_lower)}
         IN  IF keyword # {}
             THEN LET mapping == mappings.keywords[Min(keyword)]
                  IN  Result(mapping.category, mapping.subcategory, "high",
                             "User-defined keyword: " \o mapping.name)
             ELSE IF exact # {}
             THEN LET mapping == mappings.exact_matches[Min(exact)]
                  IN  Result(mapping.category, mapping.subcategory, "high",
                             "User-defined exact match")
             ELSE IF ~amount.numeric THEN Raised("TypeError")
             ELSE IF amount.value > 0 THEN IncomeResult[description.text]
             ELSE OutflowResult[source, description.text]

categorize(mappings, source, description, amount) ==
    IF description.none THEN Raised("AttributeError")
    ELSE LET desc_lower == desc_lower_of[description.text]
             exact == {i \in 1..Len(mappings.exact_matches) :
                          mappings.exact_matches[i].name = desc_lower}
             keyword == {i \in 1..Len(mappings.keywords) :
                            Contains(mappings.keywords[i].name, desc_lower)}
         IN  IF exact # {}
             THEN LET mapping == mappings.exact_matches[Min(exact)]
                  IN  Result(mapping.category, mapping.subcategory, "high",
                             "User-defined exact match")
             ELSE IF keyword # {}
             THEN LET mapping == mappings.keywords[Min(keyword)]
                  IN  Result(mapping.category, mapping.subcategory, "high",
                             "User-defined keyword: " \o mapping.name)
             ELSE IF ~amount.numeric THEN Raised("TypeError")
             ELSE IF amount.value > 0 THEN IncomeResult[description.text]
             ELSE OutflowResult[source, description.text]

\* learn up to the call of _save_user_mappings: whether that call is reached
\* (no exception before it), and the mapping then.
learn(mappings, description, category, subcategory, match_type) ==
    IF description.none THEN [reached_save |-> FALSE, mappings |-> mappings]
    ELSE LET desc_lower == desc_lower_of[description.text]
             words == Split(desc_lower)
             keyword == IF Len(words) > 0 THEN LongestWord(words) ELSE desc_lower
         IN  IF match_type = "exact"
             THEN [reached_save |-> TRUE,
                   mappings |-> [mappings EXCEPT !.exact_matches =
                                    DictSet(@, desc_lower, category, subcategory)]]
             ELSE [reached_save |-> TRUE,
                   mappings |-> [mappings EXCEPT !.keywords =
                                    DictSet(@, keyword, category, subcategory)]]

\* The mapping file: absent, a whole document, or cut short by a failed write.
AbsentFile == [state |-> "absent", document |-> EmptyMappings]

\* _save_user_mappings: open(file, 'w') then json.dump.  The open may fail (the
\* file is left as it was), the dump may fail after the open emptied the file,
\* or both succeed; the exception of a failure is caught and printed.
SaveOutcomes == {"written", "open_failed", "dump_failed"}

save_user_mappings(file, mappings, outcome) ==
    IF outcome = "written" THEN [state |-> "document", document |-> mappings]
    ELSE IF outcome = "dump_failed" THEN [state |-> "partial", document |-> EmptyMappings]
    ELSE file

(***************************************************************************)
(* pii_sanitizer.py: tables and name detection                             *)
(***************************************************************************)
MERCHANT_WHITELIST == {
  "SWIGGY", "ZOMATO", "BLINKIT", "ZEPTO", "DUNZO", "BIGBASKET", "GROFERS", "DOMINOS",
  "PIZZA HUT", "KFC", "MCDONALDS", "BURGER KING", "SUBWAY", "AMAZON", "FLIPKART",
  "MYNTRA", "AJIO", "NYKAA", "MEESHO", "SNAPDEAL", "MAKEMYTRIP",
  "MAKEMYTRIP INDIA PVT", "GOIBIBO", "CLEARTRIP", "YATRA", "OLA", "UBER", "RAPIDO",
  "REDBUS", "IRCTC", "ABHIBUS", "NETFLIX", "NETFLIX COM", "AMAZON PRIME", "HOTSTAR",
  "DISNEY PLUS", "SPOTIFY", "APPLE", "APPLE SERVICES", "GOOGLE", "YOUTUBE", "AIRTEL",
  "AIRTEL MOBILE BILL", "JIO", "VODAFONE", "BSNL", "VI", "TATA POWER", "ADANI GAS",
  "MAHANAGAR GAS", "BESCOM", "ZERODHA", "ZERODHA BROKING LTD", "GROWW", "UPSTOX",
  "ANGEL BROKING", "PAYTM", "PHONEPE", "GPAY", "GOOGLE PAY", "MOBIKWIK", "FREECHARGE",
  "HDFC BANK", "ICICI BANK", "SBI", "AXIS BANK", "KOTAK", "LIBERTY GENERAL INSU",
  "LIBERTY GENERAL INSURANCE", "HDFC LIFE", "ICICI PRUDENTIAL", "LIC", "MAX LIFE",
  "TATA AIA", "BAJAJ ALLIANZ", "STAR HEALTH", "CARE HEALTH", "RELIANCE", "DMART",
  "BIG BAZAAR", "SPENCER", "MORE", "SPAR", "CROMA", "VIJAY SALES", "RELIANCE DIGITAL",
  "APOLLO", "APOLLO PHARMACY", "MEDPLUS", "NETMEDS", "PHARMEASY", "1MG", "PRACTO",
  "CASH WITHDRAWAL", "ATM WITHDRAWAL", "INTEREST CREDIT", "SALARY",
  "PAYMENT FROM PHONE", "SENT USING PAYTM", "MONTHLY AUTOPAY", "MANDATE REQUEST",
  "MANDATEREQUEST", "AUTOPAY", "STANDING INSTRUCTION"
}

\* MERCHANT_WHITELIST_LOWER
MERCHANT_WHITELIST_LOWER == {Lower(m) : m \in MERCHANT_WHITELIST}

LetterChars == CharsOf(LOWER_LETTERS) \cup UpperChars

\* The number of characters from i on that are in the class, up to the first
\* that is not: a greedy character class of a regular expression.
RunLen(s, i, class) ==
    Min({j \in i..(Len(s) + 1) : j = Len(s) + 1 \/ CharAt(s, j) \notin class}) - i

\* str.startswith
StartsWithText(s, prefix) == Len(s) >= Len(prefix) /\ SubSeq(s, 1, Len(prefix)) = prefix

\* ' '.join(words)
RECURSIVE JoinFrom(_, _, _)
JoinFrom(words, sep, i) ==
    IF i > Len(words) THEN ""
    ELSE IF i = Len(words) THEN words[i]
    ELSE words[i] \o sep \o JoinFrom(words, sep, i + 1)

Join(words, sep) == JoinFrom(words, sep, 1)

\* str.replace(old, new, 1): the first occurrence of old replaced.
ReplaceFirst(s, old, new) ==
    LET at == {i \in 1..(Len(s) - Len(old) + 1) : SubSeq(s, i, i + Len(old) - 1) = old}
    IN  IF at = {} THEN s
        ELSE SubSeq(s, 1, Min(at) - 1) \o new \o SubSeq(s, Min(at) + Len(old), Len(s))

\* str.isalpha() and str.isupper()
IsAlphaStr(s) == Len(s) > 0 /\ \A i \in 1..Len(s) : CharAt(s, i) \in LetterChars

IsUpperStr(s) ==
    /\ \E i \in 1..Len(s) : CharAt(s, i) \in UpperChars
    /\ \A i \in 1..Len(s) : CharAt(s, i) \notin CharsOf(LOWER_LETTERS)

\* The titles a word of a name may be.
NameTitles == {"MR", "MRS", "MS", "DR", "SHRI", "SMT", "KUMAR", "MAJ"}

is_likely_personal_name(raw) ==
    IF raw = "" \/ Len(raw) < 3 THEN FALSE
    ELSE LET text == Strip(raw)
             text_lower == Lower(text)
             letters_only == Cardinality({i \in 1..Len(text) :
                                 CharAt(text, i) \in LetterChars \cup Whitespace})
             words == Split(text)
         IN  IF text_lower \in MERCHANT_WHITELIST_LOWER THEN FALSE
             ELSE IF /\ Len(text_lower) > 4
                     /\ \E merchant \in MERCHANT_WHITELIST_LOWER :
                           Contains(merchant, text_lower) \/ Contains(text_lower, merchant)
             THEN FALSE
             ELSE IF 10 * letters_only < 7 * Len(text) THEN FALSE
             ELSE IF ~(1 <= Len(words) /\ Len(words) <= 4) THEN FALSE
             ELSE IF \E w \in 1..Len(words) :
                        /\ Upper(words[w]) \notin NameTitles
                        /\ \/ ~(2 <= Len(words[w]) /\ Len(words[w]) <= 20)
                           \/ ~IsAlphaStr(RemoveAll(RemoveAll(words[w], "."), "-"))
             THEN FALSE
             ELSE IF IsUpperStr(text) /\ Len(text) <= 4 THEN FALSE
             ELSE TRUE

\* ' '.join(part.strip().split())
squeeze(part) == Join(Split(Strip(part)), " ")

extract_name_from_upi(description) ==
    IF ~StartsWithText(Upper(description), "UPI") THEN None
    ELSE LET parts == SplitSep(description, "-")
         IN  IF Len(parts) >= 2 /\ is_likely_personal_name(squeeze(parts[2]))
             THEN Some(squeeze(parts[2]))
             ELSE None

\* The names among parts[from..to] (counted from 0, as the code does).
names_in_parts(parts, from, to) ==
    SelectSeq([k \in 1..(to - from + 1) |-> squeeze(parts[from + k])],
              is_likely_personal_name)

\* re.match(r'^NEFT\s*(CR|DR)', description.upper())
IsNeft(description) ==
    LET upper == Upper(description)
        at == 5 + RunLen(upper, 5, Whitespace)
    IN  /\ StartsWithText(upper, "NEFT")
        /\ SubSeq(upper, at, at + 1) \in {"CR", "DR"}

\* The names found, in order; the empty list where the code returns None.
extract_name_from_neft(description) ==
    IF ~IsNeft(description) THEN << >>
    ELSE LET parts == SplitSep(description, "-")
         IN  names_in_parts(parts, 2, Min({Len(parts), 5}) - 1)

extract_name_from_imps(description) ==
    IF ~StartsWithText(Upper(description), "IMPS") THEN << >>
    ELSE LET parts == SplitSep(description, "-")
         IN  names_in_parts(parts, 1, Min({Len(parts), 4}) - 1)

(***************************************************************************)
(* pii_sanitizer.py: the patterns and re.finditer                          *)
(***************************************************************************)
NoMatch == [found |-> FALSE, group |-> "", end |-> 0]

Match(group, end) == [found |-> TRUE, group |-> group, end |-> end]

\* Characters i..(i + n - 1) of s exist and are all in the class.
AllIn(s, i, n, class) ==
    i + n - 1 <= Len(s) /\ \A j \in i..(i + n - 1) : CharAt(s, j) \in class

UpiUserChars == LetterChars \cup DigitChars \cup {".", "_", "-"}

IfscTailChars == UpperChars \cup DigitChars

\* The match of a pattern that starts at character i of s: its group 1 and the
\* place after its last character.  Every class of these patterns is followed
\* by a character outside it, so the greedy run is the only candidate.
MatchAt(pattern, s, i) ==
    CASE pattern = "phone" ->                       \* \b([6-9]\d{9})\b
           IF /\ AllIn(s, i, 1, {"6", "7", "8", "9"})
              /\ AllIn(s, i, 10, DigitChars)
              /\ WordBoundary(s, i)
              /\ WordBoundary(s, i + 10)
           THEN Match(SubSeq(s, i, i + 9), i + 10) ELSE NoMatch
      [] pattern = "upi_phone" ->                   \* (\d{10})@[A-Za-z]+
           IF /\ AllIn(s, i, 10, DigitChars)
              /\ AllIn(s, i + 10, 1, {"@"})
              /\ AllIn(s, i + 11, 1, LetterChars)
           THEN Match(SubSeq(s, i, i + 9), i + 11 + RunLen(s, i + 11, LetterChars))
           ELSE NoMatch
      [] pattern = "upi_phone_extended" ->          \* (\d{10})-\d+@[A-Za-z]+
           IF /\ AllIn(s, i, 10, DigitChars)
              /\ AllIn(s, i + 10, 1, {"-"})
              /\ AllIn(s, i + 11, 1, DigitChars)
           THEN LET at == i + 11 + RunLen(s, i + 11, DigitChars)
                IN  IF AllIn(s, at, 1, {"@"}) /\ AllIn(s, at + 1, 1, LetterChars)
                    THEN Match(SubSeq(s, i, i + 9),
                               at + 1 + RunLen(s, at + 1, LetterChars))
                    ELSE NoMatch
           ELSE NoMatch
      [] pattern = "ifsc_account" ->                \* \b([A-Z]{4}\d{11,17})\b
           IF WordBoundary(s, i) /\ AllIn(s, i, 4, UpperChars)
           THEN LET n == RunLen(s, i + 4, DigitChars)
                IN  IF 11 <= n /\ n <= 17 /\ WordBoundary(s, i + 4 + n)
                    THEN Match(SubSeq(s, i, i + 3 + n), i + 4 + n) ELSE NoMatch
           ELSE NoMatch
      [] pattern = "long_number" ->                 \* \b(\d{12,18})\b
           IF WordBoundary(s, i) /\ AllIn(s, i, 1, DigitChars)
           THEN LET n == RunLen(s, i, DigitChars)
                IN  IF 12 <= n /\ n <= 18 /\ WordBoundary(s, i + n)
                    THEN Match(SubSeq(s, i, i + n - 1), i + n) ELSE NoMatch
           ELSE NoMatch
      [] pattern = "account_reference" ->           \* A/C[-\s]*([A-Z0-9]{8,})
           IF LitAt("A/C", s, i)
           THEN LET at == i + 3 + RunLen(s, i + 3, Whitespace \cup {"-"})
                    n == RunLen(s, at, IfscTailChars)
                IN  IF n >= 8 THEN Match(SubSeq(s, at, at + n - 1), at + n) ELSE NoMatch
           ELSE NoMatch
      [] pattern = "upi_id" ->                      \* ([A-Za-z0-9._-]+@[A-Za-z]+)
           IF AllIn(s, i, 1, UpiUserChars)
           THEN LET at == i + RunLen(s, i, UpiUserChars)
                IN  IF AllIn(s, at, 1, {"@"}) /\ AllIn(s, at + 1, 1, LetterChars)
                    THEN LET end == at + 1 + RunLen(s, at + 1, LetterChars)
                         IN  Match(SubSeq(s, i, end - 1), end)
                    ELSE NoMatch
           ELSE NoMatch
      [] pattern = "ifsc" ->                        \* \b[A-Z]{4}0[A-Z0-9]{6}\b
           IF /\ WordBoundary(s, i)
              /\ AllIn(s, i, 4, UpperChars)
              /\ AllIn(s, i + 4, 1, {"0"})
              /\ AllIn(s, i + 5, 6, IfscTailChars)
              /\ WordBoundary(s, i + 11)
           THEN Match(SubSeq(s, i, i + 10), i + 11) ELSE NoMatch

\* re.finditer(pattern, s): group 1 of the matches from character i on, left
\* to right, not overlapping.
RECURSIVE FindIter(_, _, _)
FindIter(pattern, s, i) ==
    LET starts == {j \in i..Len(s) : MatchAt(pattern, s, j).found}
    IN  IF starts = {} THEN << >>
        ELSE LET m == MatchAt(pattern, s, Min(starts))
             IN  <<m.group>> \o FindIter(pattern, s, m.end)

PHONE_PATTERNS == <<"phone", "upi_phone", "upi_phone_extended">>

ACCOUNT_PATTERNS == <<"ifsc_account", "long_number", "account_reference">>

UPI_ID_PATTERNS == <<"upi_id">>

IFSC_PATTERN == "ifsc"

(***************************************************************************)
(* PIISanitizer                                                            *)
(***************************************************************************)
\* self.stats after __init__ and after reset_stats
ZeroStats == [phone_numbers |-> 0, account_numbers |-> 0, personal_names |-> 0,
              upi_ids |-> 0]

Finding(type, original, masked) == [type |-> type, original |-> original, masked |-> masked]

\* s[-n:]
Last(s, n) == SubSeq(s, Max({1, Len(s) - n + 1}), Len(s))

\* c * n
RECURSIVE Repeat(_, _)
Repeat(c, n) == IF n <= 0 THEN "" ELSE c \o Repeat(c, n - 1)

mask_phone_number(phone) ==
    IF Len(phone) >= 10 THEN "XXXXX" \o Last(phone, 5)
    ELSE IF Len(phone) > 4 THEN "XXXXX" \o Last(phone, 4)
    ELSE "XXXXX"

mask_account_number(account) ==
    IF Len(account) > 4 THEN Repeat("*", Len(account) - 4) \o Last(account, 4)
    ELSE "****"

\* The element of a set of one element: a value worked out once, whatever the
\* number of places that use it.
The(S) == CHOOSE x \in S : TRUE

\* What a step works on and hands on: the text so far, the findings of the
\* step so far, and self.stats.
Work(result, pii_found, stats) == [result |-> result, pii_found |-> pii_found, stats |-> stats]

\* The loop body without the count.
mask_name_uncounted(work, name, placeholder) ==
    Work(ReplaceFirst(work.result, name, placeholder),
         Append(work.pii_found, Finding("personal_name", name, placeholder)),
         work.stats)

\* The body of a loop over names: replace the first occurrence, append the
\* finding, count it.
mask_name(work, name, placeholder) ==
    Work(ReplaceFirst(work.result, name, placeholder),
         Append(work.pii_found, Finding("personal_name", name, placeholder)),
         [work.stats EXCEPT !.personal_names = @ + 1])

RECURSIVE mask_names(_, _, _, _)
mask_names(work, names, k, placeholder) ==
    IF k > Len(names) THEN work
    ELSE The({mask_names(masked, names, k + 1, placeholder) :
                 masked \in {mask_name(work, names[k], placeholder)}})

sanitize_names(stats, text) ==
    LET neft_placeholder == IF Contains("CR", SubSeq(Upper(text), 1, Min({20, Len(text)})))
                            THEN "[ACCOUNT_HOLDER]" ELSE "[RECIPIENT]"
    IN  The({mask_names(after_neft, imps_names, 1, "[PARTY]") :
                after_neft \in
                    {mask_names(after_upi, neft_names, 1, neft_placeholder) :
                        after_upi \in
                            {IF upi_name.found
                             THEN mask_name(Work(text, << >>, stats), upi_name.value, "[PAYEE]")
                             ELSE Work(text, << >>, stats) :
                                 upi_name \in {extract_name_from_upi(text)}},
                        neft_names \in {extract_name_from_neft(text)}},
                imps_names \in {extract_name_from_imps(text)}})

\* The loop over the matches of one phone pattern.
RECURSIVE mask_phones(_, _, _)
mask_phones(work, phones, k) ==
    IF k > Len(phones) THEN work
    ELSE LET phone == phones[k]
         IN  IF Len(phone) = 10 /\ CharAt(phone, 1) \in {"6", "7", "8", "9"}
             THEN The({mask_phones(masked, phones, k + 1) :
                          masked \in
                              {Work(ReplaceFirst(work.result, phone, mask_phone_number(phone)),
                                    Append(work.pii_found,
                                           Finding("phone_number", phone,
                                                   mask_phone_number(phone))),
                                    [work.stats EXCEPT !.phone_numbers = @ + 1])}})
             ELSE mask_phones(work, phones, k + 1)

\* The loop over the patterns: re.finditer is given the text as the patterns
\* before have left it.
RECURSIVE sanitize_phones_from(_, _)
sanitize_phones_from(work, p) ==
    IF p > Len(PHONE_PATTERNS) THEN work
    ELSE The({sanitize_phones_from(masked, p + 1) :
                 masked \in {mask_phones(work, phones, 1) :
                                 phones \in {FindIter(PHONE_PATTERNS[p], work.result, 1)}}})

sanitize_phones(stats, text) == sanitize_phones_from(Work(text, << >>, stats), 1)

RECURSIVE mask_accounts(_, _, _, _)
mask_accounts(work, accounts, k, ifsc_codes) ==
    IF k > Len(accounts) THEN work
    ELSE LET account == accounts[k]
         IN  IF account \in ifsc_codes \/ Len(account) < 10
             THEN mask_accounts(work, accounts, k + 1, ifsc_codes)
             ELSE The({mask_accounts(masked, accounts, k + 1, ifsc_codes) :
                          masked \in
                              {Work(ReplaceFirst(work.result, account,
                                                 mask_account_number(account)),
                                    Append(work.pii_found,
                                           Finding("account_number", account,
                                                   mask_account_number(account))),
                                    [work.stats EXCEPT !.account_numbers = @ + 1])}})

RECURSIVE sanitize_account_numbers_from(_, _, _)
sanitize_account_numbers_from(work, p, ifsc_codes) ==
    IF p > Len(ACCOUNT_PATTERNS) THEN work
    ELSE The({sanitize_account_numbers_from(masked, p + 1, ifsc_codes) :
                 masked \in {mask_accounts(work, accounts, 1, ifsc_codes) :
                                 accounts \in {FindIter(ACCOUNT_PATTERNS[p], work.result, 1)}}})

sanitize_account_numbers(stats, text) ==
    The({sanitize_account_numbers_from(Work(text, << >>, stats), 1, ifsc_codes) :
            ifsc_codes \in {{found[k] : k \in 1..Len(found)} :
                               found \in {FindIter(IFSC_PATTERN, text, 1)}}})

\* The UPI ids of these merchants are left as they are.
UpiMerchants == {"swiggy", "zomato", "paytm", "amazon", "flipkart", "phonepe", "gpay",
                 "netflix", "apple", "blinkit", "makemytrip"}

RECURSIVE mask_upi_ids(_, _, _)
mask_upi_ids(work, upi_ids, k) ==
    IF k > Len(upi_ids) THEN work
    ELSE LET upi_id == upi_ids[k]
             at == Min({i \in 1..Len(upi_id) : CharAt(upi_id, i) = "@"})
             username == SubSeq(upi_id, 1, at - 1)
             bank == SubSeq(upi_id, at + 1, Len(upi_id))
             masked_username == IF Len(username) > 4
                                THEN SubSeq(username, 1, 2) \o "***" \o Last(username, 2)
                                ELSE "***"
             masked_id == masked_username \o "@" \o bank
         IN  IF \E merchant \in UpiMerchants : Contains(merchant, Lower(upi_id))
             THEN mask_upi_ids(work, upi_ids, k + 1)
             ELSE IF AllIn(username, 1, 10, DigitChars)
             THEN mask_upi_ids(work, upi_ids, k + 1)
             ELSE The({mask_upi_ids(masked, upi_ids, k + 1) :
                          masked \in
                              {Work(ReplaceFirst(work.result, upi_id, masked_id),
                                    Append(work.pii_found,
                                           Finding("upi_id", upi_id, masked_id)),
                                    [work.stats EXCEPT !.upi_ids = @ + 1])}})

sanitize_upi_ids(stats, text) ==
    The({mask_upi_ids(Work(text, << >>, stats), upi_ids, 1) :
            upi_ids \in {FindIter(UPI_ID_PATTERNS[1], text, 1)}})

\* sanitize_text: the SanitizationResult, and self.stats after the call.
sanitize_text(stats, text) ==
    IF text = ""
    THEN [original |-> text, sanitized |-> text, pii_found |-> << >>, stats |-> stats]
    ELSE The({The({The({The({
             [original |-> text, sanitized |-> upi.result,
              pii_found |-> names.pii_found \o phones.pii_found \o accounts.pii_found
                            \o upi.pii_found,
              stats |-> upi.stats] :
                 upi \in {sanitize_upi_ids(accounts.stats, accounts.result)}}) :
                 accounts \in {sanitize_account_numbers(phones.stats, phones.result)}}) :
                 phones \in {sanitize_phones(names.stats, names.result)}}) :
                 names \in {sanitize_names(stats, text)}})

\* What sanitize_text can be given: a str, None, or the missing value of a
\* DataFrame column (NaN).
TextValue(text) == [kind |-> "str", text |-> text]

MissingValue(kind) == [kind |-> kind, text |-> ""]

MissingKinds == {"None", "NaN"}

\* str(text)
str(value) ==
    IF value.kind = "None" THEN "None" ELSE IF value.kind = "NaN" THEN "nan" ELSE value.text

\* sanitize_text from its first line: 'not text or pd.isna(text)' returns
\* str(text) twice, with no findings.
sanitize_value(stats, value) ==
    IF value.kind \in MissingKinds \/ value.text = ""
    THEN [original |-> str(value), sanitized |-> str(value), pii_found |-> << >>,
          stats |-> stats]
    ELSE sanitize_text(stats, str(value))

\* get_sanitization_summary (unique_names_found is len(self.name_mapping),
\* which no operation fills)
get_sanitization_summary(stats, name_map) ==
    [total_pii_masked |-> stats.phone_numbers + stats.account_numbers
                          + stats.personal_names + stats.upi_ids,
     breakdown |-> stats,
     unique_names_found |-> Len(name_map)]

(***************************************************************************)
(* The state machine: one classifier instance and its callers              *)
(***************************************************************************)
VARIABLES
    merchant_source,  \* the merchant database file the module was imported with
    user_mappings,    \* self.user_mappings
    mappings_file,    \* the file self.user_mappings_file names
    call,             \* the call that has just returned, with what it returned
    last_learn,       \* the latest learn call of the instance
    n_learn           \* the number of learn calls made

\* The processes that share one mapping file (each has imported the module and
\* constructs its own RefinedCategorizer on the file).
VARIABLES
    module_import,    \* the outcome of 'import refined_categories' in the processes
    store,            \* the mapping file the workers share
    workers,          \* each worker's instance: where it is, and self.user_mappings
    worker_call       \* the call of a worker that returned last

\* One PIISanitizer instance and its caller.
VARIABLES
    stats,            \* self.stats
    sanitize_call,    \* the call of the sanitizer that returned last
    returned,         \* the findings the sanitize_text calls have returned since the
                      \* statistics were last reset, counted by type
    n_sanitize,       \* the number of sanitize_text calls made
    name_mapping,     \* self.name_mapping, in the order of insertion
    named             \* the names the sanitize_text calls have returned since the last
                      \* reset, in upper case, each with the placeholder it was given

classifier_vars == <<merchant_source, user_mappings, mappings_file, call, last_learn, n_learn>>

store_vars == <<module_import, store, workers, worker_call>>

\* The two name tests and their caller.
VARIABLES
    name_test         \* the name test that returned last: which, on what, its verdict

detector_vars == <<name_test>>

sanitizer_vars == <<stats, sanitize_call, returned, n_sanitize, name_mapping, named>>

\* What a step of the single classifier leaves alone.
beyond_classifier == <<store_vars, sanitizer_vars, detector_vars>>

vars == <<merchant_source, user_mappings, mappings_file, call, last_learn, n_learn,
          module_import, store, workers, worker_call,
          stats, sanitize_call, returned, n_sanitize, name_mapping, named, name_test>>

NoResult == Result("", "", "", "")

Idle == [op |-> "idle", description |-> Str(""), amount |-> Number(0),
         category |-> "", subcategory |-> "", match_type |-> "",
         result |-> NoResult, ok |-> FALSE]

NoLearn == [made |-> FALSE, description |-> Str(""), category |-> "", subcategory |-> "",
            match_type |-> "", ok |-> FALSE]

\* The module is imported and RefinedCategorizer() constructed: the mapping file
\* does not exist yet, so _load_user_mappings returns the empty mapping.
\* The merchant database file of a process: absent, the sample document, a file
\* that is no JSON, or a JSON document that is a list instead of an object.
MerchantFiles == MerchantSources \cup {"unparseable", "misshapen"}

\* import refined_categories: _load_merchant_database returns {} for a file
\* that is absent or no JSON (the exception is caught); _build_merchant_lookup
\* calls .items() on what was loaded, so a list raises AttributeError at import
\* and the module, and with it the class, does not exist in the process.
import_refined_categories(file) ==
    IF file = "misshapen" THEN [imported |-> FALSE, source |-> "absent"]
    ELSE [imported |-> TRUE, source |-> IF file = "sample" THEN "sample" ELSE "absent"]

\* The mapping file cut short (no JSON), and holding a JSON list.
PartialFile == [state |-> "partial", document |-> EmptyMappings]

MisshapenFile == [state |-> "misshapen", document |-> EmptyMappings]

\* _load_user_mappings: what json.load returns, a dict or a list, and the empty
\* mapping when the file is absent or json.load raises.
load_user_mappings(file) ==
    IF file.state = "document" THEN [shape |-> "dict", mappings |-> file.document]
    ELSE IF file.state = "misshapen" THEN [shape |-> "list", mappings |-> EmptyMappings]
    ELSE [shape |-> "dict", mappings |-> EmptyMappings]

Workers == {1, 2}

\* What each worker learns, with the default match type.
WorkerLearns == <<[description |-> Str("some desc"), category |-> "Education",
                   subcategory |-> "Books"],
                  [description |-> Str("AMAZON PRIME"), category |-> "Shopping",
                   subcategory |-> "Online Shopping"]>>

\* A worker before RefinedCategorizer() is called.
Unborn == [pc |-> "unborn", memory |-> [shape |-> "dict", mappings |-> EmptyMappings],
           pending |-> "", learned |-> "no"]

NoWorkerCall == [worker |-> 0, op |-> "none", description |-> Str(""), ok |-> FALSE,
                 result |-> NoResult]

NoSanitization == [original |-> "", sanitized |-> "", pii_found |-> << >>]

NoSummary == [total_pii_masked |-> 0, breakdown |-> ZeroStats, unique_names_found |-> 0]

NoSanitizeCall == [op |-> "none", again |-> FALSE, given |-> TextValue(""),
                   result |-> NoSanitization,
                   summary |-> NoSummary]

\* The sanitizer as PIISanitizer() leaves it; it is not part of the behaviours
\* of the classifier.
NoNameTest == [op |-> "none", text |-> "", verdict |-> FALSE]

SanitizerAtRest ==
    /\ name_test = NoNameTest
    /\ stats = ZeroStats
    /\ sanitize_call = NoSanitizeCall
    /\ returned = ZeroStats
    /\ n_sanitize = 0
    /\ name_mapping = << >>
    /\ named = {}

\* The workers are not part of the behaviours of the single classifier.
StoreAtRest ==
    /\ module_import = import_refined_categories("absent")
    /\ store = AbsentFile
    /\ workers = [w \in Workers |-> Unborn]
    /\ worker_call = NoWorkerCall

Init ==
    /\ merchant_source \in MerchantSources
    /\ user_mappings = EmptyMappings
    /\ mappings_file = AbsentFile
    /\ call = Idle
    /\ last_learn = NoLearn
    /\ n_learn = 0
    /\ StoreAtRest
    /\ SanitizerAtRest

\* Categorize with the result kept as an exact-match entry, as a cache would.
CategorizeCaching(description, amount) ==
    LET result == categorize(user_mappings, merchant_source, description, amount)
    IN  /\ call.op = "idle"
        /\ call' = [Idle EXCEPT !.op = "categorize", !.description = description,
                                !.amount = amount, !.result = result]
        /\ user_mappings' =
              IF description.none \/ result.raised THEN user_mappings
              ELSE [user_mappings EXCEPT !.exact_matches =
                       DictSet(@, desc_lower_of[description.text],
                               result.category, result.subcategory)]
        /\ UNCHANGED <<merchant_source, mappings_file, last_learn, n_learn>>
        /\ UNCHANGED beyond_classifier

\* A caller calls categorize(description, amount).
Categorize(description, amount) ==
    /\ call.op = "idle"
    /\ call' = [Idle EXCEPT !.op = "categorize", !.description = description,
                            !.amount = amount,
                            !.result = categorize(user_mappings, merchant_source,
                                                  description, amount)]
    /\ UNCHANGED <<merchant_source, user_mappings, mappings_file, last_learn, n_learn>>
    /\ UNCHANGED beyond_classifier

\* A caller calls learn(description, category, subcategory, match_type); the
\* save inside ends in one of its outcomes.  learn returns True when the save
\* was reached, whatever its outcome, and False when an exception came first.
Learn(description, category, subcategory, match_type, outcome) ==
    /\ call.op = "idle"
    /\ n_learn < MaxLearn
    /\ LET r == learn(user_mappings, description, category, subcategory, match_type)
       IN  /\ user_mappings' = r.mappings
           /\ mappings_file' = IF r.reached_save
                               THEN save_user_mappings(mappings_file, r.mappings, outcome)
                               ELSE mappings_file
           /\ call' = [Idle EXCEPT !.op = "learn", !.description = description,
                                   !.category = category, !.subcategory = subcategory,
                                   !.match_type = match_type, !.ok = r.reached_save]
           /\ last_learn' = [made |-> TRUE, description |-> description,
                             category |-> category, subcategory |-> subcategory,
                             match_type |-> match_type, ok |-> r.reached_save]
    /\ n_learn' = n_learn + 1
    /\ UNCHANGED merchant_source
    /\ UNCHANGED beyond_classifier

\* learn_from_user with the match_type of the request passed on to learn.
LearnFromUserAsAsked(description, category, subcategory, match_type, outcome) ==
    /\ call.op = "idle"
    /\ n_learn < MaxLearn
    /\ LET r == learn(user_mappings, description, category, subcategory, match_type)
       IN  /\ user_mappings' = r.mappings
           /\ mappings_file' = IF r.reached_save
                               THEN save_user_mappings(mappings_file, r.mappings, outcome)
                               ELSE mappings_file
           /\ call' = [Idle EXCEPT !.op = "learn_category", !.description = description,
                                   !.category = category, !.subcategory = subcategory,
                                   !.match_type = match_type, !.ok = r.reached_save]
           /\ last_learn' = [made |-> TRUE, description |-> description,
                             category |-> category, subcategory |-> subcategory,
                             match_type |-> match_type, ok |-> r.reached_save]
    /\ n_learn' = n_learn + 1
    /\ UNCHANGED merchant_source
    /\ UNCHANGED beyond_classifier

\* POST /learn: learn_from_user hands the description, category and subcategory
\* of the request, and not its match_type, to learn_category, which calls
\* get_categorizer().learn(description, category, subcategory) on the one
\* categorizer of the module: match_type takes its default there.  The call
\* record keeps the match_type of the request, last_learn what learn was
\* called with.
LearnFromUser(description, category, subcategory, match_type, outcome) ==
    /\ call.op = "idle"
    /\ n_learn < MaxLearn
    /\ LET r == learn(user_mappings, description, category, subcategory, "keyword")
       IN  /\ user_mappings' = r.mappings
           /\ mappings_file' = IF r.reached_save
                               THEN save_user_mappings(mappings_file, r.mappings, outcome)
                               ELSE mappings_file
           /\ call' = [Idle EXCEPT !.op = "learn_category", !.description = description,
                                   !.category = category, !.subcategory = subcategory,
                                   !.match_type = match_type, !.ok = r.reached_save]
           /\ last_learn' = [made |-> TRUE, description |-> description,
                             category |-> category, subcategory |-> subcategory,
                             match_type |-> "keyword", ok |-> r.reached_save]
    /\ n_learn' = n_learn + 1
    /\ UNCHANGED merchant_source
    /\ UNCHANGED beyond_classifier

\* The caller has taken the returned value.
Return ==
    /\ call.op # "idle"
    /\ call' = Idle
    /\ UNCHANGED <<merchant_source, user_mappings, mappings_file, last_learn, n_learn>>
    /\ UNCHANGED beyond_classifier

Next ==
    \/ \E description \in Descriptions, amount \in Amounts : Categorize(description, amount)
    \/ \E description \in LearnDescriptions, c \in LearnCategories, match_type \in MatchTypes,
          outcome \in SaveOutcomes :
          Learn(description, c[1], c[2], match_type, outcome)
    \/ \E description \in LearnDescriptions, c \in LearnCategories, match_type \in MatchTypes,
          outcome \in SaveOutcomes :
          LearnFromUser(description, c[1], c[2], match_type, outcome)
    \/ Return

Spec == Init /\ [][Next]_vars

(***************************************************************************)
(* Workers on one mapping file                                             *)
(***************************************************************************)
\* The processes start: the module is imported with the merchant file there
\* is, and the mapping file is absent, cut short or a JSON list.
StoreInit ==
    /\ merchant_source = "absent"
    /\ user_mappings = EmptyMappings
    /\ mappings_file = AbsentFile
    /\ call = Idle
    /\ last_learn = NoLearn
    /\ n_learn = 0
    /\ \E file \in MerchantFiles : module_import = import_refined_categories(file)
    /\ store \in {AbsentFile, PartialFile, MisshapenFile}
    /\ workers = [w \in Workers |-> Unborn]
    /\ worker_call = NoWorkerCall
    /\ SanitizerAtRest

\* Worker w calls RefinedCategorizer(file): __init__ loads the mapping file.
Construct(w) ==
    /\ module_import.imported
    /\ workers[w].pc = "unborn"
    /\ workers' = [workers EXCEPT ![w].pc = "ready",
                                  ![w].memory = load_user_mappings(store)]
    /\ worker_call' = [NoWorkerCall EXCEPT !.worker = w, !.op = "construct", !.ok = TRUE]
    /\ UNCHANGED <<classifier_vars, sanitizer_vars, detector_vars, module_import, store>>

\* Worker w calls categorize(description, -100) on its instance: .get on a
\* list raises AttributeError.
WorkerCategorize(w, description) ==
    /\ workers[w].pc = "ready"
    /\ worker_call' =
          [NoWorkerCall EXCEPT
              !.worker = w, !.op = "categorize", !.description = description,
              !.result = IF workers[w].memory.shape = "list" THEN Raised("AttributeError")
                         ELSE categorize(workers[w].memory.mappings, module_import.source,
                                         description, Number(-100))]
    /\ UNCHANGED <<classifier_vars, sanitizer_vars, detector_vars, module_import, store, workers>>

\* Worker w calls learn: the mapping in memory is updated and _save_user_mappings
\* opens the file for writing, which empties it.  On a list .setdefault raises
\* and learn returns False; when the open fails learn returns True at once.
WorkerLearn(w, outcome) ==
    /\ workers[w].pc = "ready"
    /\ LET mine == WorkerLearns[w]
           r == learn(workers[w].memory.mappings, mine.description, mine.category,
                      mine.subcategory, "keyword")
       IN  IF workers[w].memory.shape = "list"
           THEN /\ workers' = [workers EXCEPT ![w].learned = "refused"]
                /\ worker_call' = [NoWorkerCall EXCEPT !.worker = w, !.op = "learn",
                                                       !.description = mine.description]
                /\ store' = store
           ELSE IF outcome = "open_failed"
           THEN /\ workers' = [workers EXCEPT ![w].memory.mappings = r.mappings,
                                              ![w].learned = "unsaved"]
                /\ worker_call' = [NoWorkerCall EXCEPT !.worker = w, !.op = "learn",
                                                       !.description = mine.description,
                                                       !.ok = TRUE]
                /\ store' = store
           ELSE /\ workers' = [workers EXCEPT ![w].memory.mappings = r.mappings,
                                              ![w].pc = "saving",
                                              ![w].pending = outcome]
                /\ worker_call' = worker_call
                /\ store' = PartialFile
    /\ UNCHANGED <<classifier_vars, sanitizer_vars, detector_vars, module_import>>

\* json.dump of worker w writes its whole mapping, or fails part-way; then the
\* file is closed and learn returns True.
WorkerDump(w) ==
    /\ workers[w].pc = "saving"
    /\ store' = save_user_mappings(PartialFile, workers[w].memory.mappings,
                                   workers[w].pending)
    /\ workers' = [workers EXCEPT ![w].pc = "ready", ![w].pending = "",
                                  ![w].learned = IF workers[w].pending = "written"
                                                 THEN "saved" ELSE "unsaved"]
    /\ worker_call' = [NoWorkerCall EXCEPT !.worker = w, !.op = "learn",
                                           !.description = WorkerLearns[w].description,
                                           !.ok = TRUE]
    /\ UNCHANGED <<classifier_vars, sanitizer_vars, detector_vars, module_import>>

StoreNext ==
    \/ \E w \in Workers : Construct(w)
    \/ \E w \in Workers, d \in 1..Len(WorkerLearns) :
          WorkerCategorize(w, WorkerLearns[d].description)
    \/ \E w \in Workers, outcome \in SaveOutcomes : WorkerLearn(w, outcome)
    \/ \E w \in Workers : WorkerDump(w)

StoreSpec == StoreInit /\ [][StoreNext]_vars

(***************************************************************************)
(* One sanitizer and its caller                                            *)
(***************************************************************************)
MaxSanitize == 2

\* The narrations the caller has: those of the module's own test run, and
\* others with a phone number, a name, an account number or a UPI id in them.
Texts == {
  "",
  "UPI-DHIRENDRA KUMAR  MAJ-9902770108@YBL-SBIN0017785-460665356321-PAYMENT FROM PHONE",
  "UPI-RAMU BIRADAR-8748030134@AXL-BARB0JAMKHA-257723526495-PAYMENT FROM PHONE",
  "UPI-SWIGGY-SWIGGY@YESPAY-YESB0YESUPI-476587122807-FOOD",
  "NEFT CR-UTIB0005098-S RAMALAKSHMI-BALASUBRAMANIAM V-AXOIR00513626872",
  "NEFT DR-HDFC0001234-ANITA RAO-RENT",
  "NEFT DR-SCRB0001234-ANITA RAO-RENT",
  "UPI-ANITA RAO-ANITA.RAO@OKICICI-RENT",
  "IMPS-RAVI SHARMA-A/C 12345678901",
  "CALL 9902770108 NOW",
  "REF 19902770108 CALL 9902770108",
  "PAY 9902770108@YBL",
  "TO AB@OK"
}

\* The findings of a list, counted by type as self.stats counts them.
CountOf(pii_found, type) ==
    Cardinality({k \in 1..Len(pii_found) : pii_found[k].type = type})

Counted(pii_found) ==
    [phone_numbers |-> CountOf(pii_found, "phone_number"),
     account_numbers |-> CountOf(pii_found, "account_number"),
     personal_names |-> CountOf(pii_found, "personal_name"),
     upi_ids |-> CountOf(pii_found, "upi_id")]

AddStats(a, b) ==
    [phone_numbers |-> a.phone_numbers + b.phone_numbers,
     account_numbers |-> a.account_numbers + b.account_numbers,
     personal_names |-> a.personal_names + b.personal_names,
     upi_ids |-> a.upi_ids + b.upi_ids]

\* The names of a finding list, in upper case, with their placeholders.
NamesOf(pii_found) ==
    {[name |-> Upper(pii_found[k].original), placeholder |-> pii_found[k].masked] :
        k \in {j \in 1..Len(pii_found) : pii_found[j].type = "personal_name"}}

SanitizerInit ==
    /\ merchant_source = "absent"
    /\ user_mappings = EmptyMappings
    /\ mappings_file = AbsentFile
    /\ call = Idle
    /\ last_learn = NoLearn
    /\ n_learn = 0
    /\ StoreAtRest
    /\ SanitizerAtRest

\* The caller calls sanitize_text(text); 'again' says that the text is what the
\* call before returned as sanitized.  No step of it calls _get_name_placeholder,
\* the one place that writes self.name_mapping.
SanitizeCall(value, again) ==
    /\ n_sanitize < MaxSanitize
    /\ LET r == sanitize_value(stats, value)
       IN  /\ stats' = r.stats
           /\ sanitize_call' = [NoSanitizeCall EXCEPT
                                   !.op = "sanitize_text", !.again = again,
                                   !.given = value,
                                   !.result = [original |-> r.original,
                                               sanitized |-> r.sanitized,
                                               pii_found |-> r.pii_found]]
           /\ returned' = AddStats(returned, Counted(r.pii_found))
           /\ named' = named \cup NamesOf(r.pii_found)
    /\ n_sanitize' = n_sanitize + 1
    /\ UNCHANGED <<classifier_vars, store_vars, detector_vars, name_mapping>>

SanitizeText(text) == SanitizeCall(TextValue(text), FALSE)

\* sanitize_text(None), and sanitize_text of a missing value, as
\* sanitize_dataframe calls it on the column.
SanitizeMissing(kind) ==
    /\ kind \in MissingKinds
    /\ SanitizeCall(MissingValue(kind), FALSE)

SanitizeAgain ==
    /\ sanitize_call.op = "sanitize_text"
    /\ SanitizeCall(TextValue(sanitize_call.result.sanitized), TRUE)

ResetStats ==
    /\ stats' = ZeroStats
    /\ returned' = ZeroStats
    /\ name_mapping' = << >>
    /\ named' = {}
    /\ sanitize_call' = [NoSanitizeCall EXCEPT !.op = "reset_stats"]
    /\ UNCHANGED <<classifier_vars, store_vars, detector_vars, n_sanitize>>

GetSanitizationSummary ==
    /\ sanitize_call' = [NoSanitizeCall EXCEPT !.op = "get_sanitization_summary",
                                               !.summary = get_sanitization_summary(
                                                               stats, name_mapping)]
    /\ UNCHANGED <<classifier_vars, store_vars, detector_vars, stats, returned, n_sanitize, name_mapping,
                   named>>

SanitizerNext ==
    \/ \E text \in Texts : SanitizeText(text)
    \/ \E kind \in MissingKinds : SanitizeMissing(kind)
    \/ SanitizeAgain
    \/ ResetStats
    \/ GetSanitizationSummary

SanitizerSpec == SanitizerInit /\ [][SanitizerNext]_vars

(***************************************************************************)
(* The two name tests and their caller                                     *)
(***************************************************************************)
MaxTokens == 3

\* The tokens the candidates are made of: names of the gazetteer, a title,
\* other words, a business suffix, a merchant and a code.
NameTokens == {"RAVI", "RAJENDRA", "MR", "IYER", "AB", "STORES", "UBER", "B2"}

\* The texts of n tokens.
RECURSIVE Phrases(_)
Phrases(n) ==
    IF n <= 1 THEN NameTokens
    ELSE {phrase \o " " \o token : phrase \in Phrases(n - 1), token \in NameTokens}

NameCandidates == UNION {Phrases(n) : n \in 1..MaxTokens}

DetectorInit ==
    /\ merchant_source \in MerchantSources
    /\ user_mappings = EmptyMappings
    /\ mappings_file = AbsentFile
    /\ call = Idle
    /\ last_learn = NoLearn
    /\ n_learn = 0
    /\ StoreAtRest
    /\ SanitizerAtRest

\* refined_categories._is_personal_name(text)
IsPersonalName(text) ==
    /\ name_test.op = "none"
    /\ name_test' = [op |-> "_is_personal_name", text |-> text,
                     verdict |-> is_personal_name(MERCHANT_LOOKUP[merchant_source], text)]
    /\ UNCHANGED <<classifier_vars, store_vars, sanitizer_vars>>

\* pii_sanitizer.is_likely_personal_name(text)
IsLikelyPersonalName(text) ==
    /\ name_test.op = "none"
    /\ name_test' = [op |-> "is_likely_personal_name", text |-> text,
                     verdict |-> is_likely_personal_name(text)]
    /\ UNCHANGED <<classifier_vars, store_vars, sanitizer_vars>>

\* The caller has taken the verdict.
TakeVerdict ==
    /\ name_test.op # "none"
    /\ name_test' = NoNameTest
    /\ UNCHANGED <<classifier_vars, store_vars, sanitizer_vars>>

DetectorNext ==
    \/ \E text \in NameCandidates : IsPersonalName(text)
    \/ \E text \in NameCandidates : IsLikelyPersonalName(text)
    \/ TakeVerdict

DetectorSpec == DetectorInit /\ [][DetectorNext]_vars

(***************************************************************************)
(* Properties                                                              *)
(***************************************************************************)
StartsWith(prefix, s) == Len(s) >= Len(prefix) /\ SubSeq(s, 1, Len(prefix)) = prefix

\* s without its first n characters.
After(n, s) == SubSeq(s, n + 1, Len(s))

\* The categorize call that has just returned was given a str.
Categorized == call.op = "categorize" /\ ~call.description.none

\* The normalized narration of that call.
CallKey == desc_lower_of[call.description.text]

\* The entries of the learned maps that the narration of the call hits.
ExactHits ==
    {i \in 1..Len(user_mappings.exact_matches) : user_mappings.exact_matches[i].name = CallKey}

KeywordHits ==
    {i \in 1..Len(user_mappings.keywords) : Contains(user_mappings.keywords[i].name, CallKey)}

NoLearnedHit == ExactHits = {} /\ KeywordHits = {}

\* The call returned this category and subcategory with this confidence.
Returned(category, subcategory, confidence) ==
    /\ ~call.result.raised
    /\ call.result.category = category
    /\ call.result.subcategory = subcategory
    /\ call.result.confidence = confidence

\* C1 (as claimed): whatever was learned before, once learn(d, c, s) with the
\* default match type has returned True, categorize(d, amount) returns c and s
\* with confidence high.
C1_OverrideSupremacy ==
    (/\ call.op = "categorize"
     /\ last_learn.made
     /\ last_learn.ok
     /\ last_learn.match_type = "keyword"
     /\ call.description = last_learn.description)
    => Returned(last_learn.category, last_learn.subcategory, "high")

\* C2: categorize consults the exact-match map under the lower-cased, trimmed
\* narration first, then the keyword map in insertion order (the first stored
\* keyword the narration contains wins), and only when neither hits goes on to
\* the later steps; a learned hit is returned with confidence high whatever the
\* amount is.
C2_LearnedMapsFirst ==
    Categorized =>
        /\ ExactHits # {} =>
              /\ \E i \in ExactHits :
                    Returned(user_mappings.exact_matches[i].category,
                             user_mappings.exact_matches[i].subcategory, "high")
              /\ call.result.reason = "User-defined exact match"
        /\ (ExactHits = {} /\ KeywordHits # {}) =>
              LET first == CHOOSE i \in KeywordHits : \A j \in KeywordHits : i <= j
              IN  /\ Returned(user_mappings.keywords[first].category,
                              user_mappings.keywords[first].subcategory, "high")
                  /\ call.result.reason =
                        "User-defined keyword: " \o user_mappings.keywords[first].name
        /\ NoLearnedHit => ~StartsWith("User-defined", call.result.reason)

\* A call with a positive amount whose narration contains two stored keywords of
\* different categories and is in no exact entry: the one stored first is returned.
C2_Witness ==
    /\ Categorized
    /\ ExactHits = {}
    /\ Cardinality(KeywordHits) >= 2
    /\ user_mappings.keywords[1].category # user_mappings.keywords[2].category
    /\ call.amount.numeric /\ call.amount.value > 0
    /\ call.result.category = user_mappings.keywords[1].category

\* C3: a categorize call leaves the learned mapping, the merchant table and the
\* mapping file as they were, and the same call made again in the state it
\* leaves returns the identical result.
C3_CategorizeIsPure ==
    [][(call.op = "idle" /\ call'.op = "categorize") =>
          /\ user_mappings' = user_mappings
          /\ merchant_source' = merchant_source
          /\ mappings_file' = mappings_file
          /\ call'.result = categorize(user_mappings', merchant_source',
                                       call'.description, call'.amount)]_vars

\* A categorize call has returned a result on a classifier that has learned.
C3_Witness ==
    /\ Categorized
    /\ ~call.result.raised
    /\ user_mappings # EmptyMappings

\* C4 (as claimed): categorize never raises; None is treated as the empty
\* narration and an amount that is no number as zero.
C4_NeverRaises ==
    call.op = "categorize" =>
        /\ ~call.result.raised
        /\ call.description.none =>
              call.result = categorize(user_mappings, merchant_source, Str(""), call.amount)
        /\ ~call.amount.numeric =>
              call.result = categorize(user_mappings, merchant_source,
                                       call.description, Number(0))

\* The call was for an outflow (an amount that is a number not above 0), or for
\* an inflow (a number above 0).
Expense == Categorized /\ call.amount.numeric /\ call.amount.value <= 0

Inflow == Categorized /\ call.amount.numeric /\ call.amount.value > 0

\* The reasons that name the code (merchant name or keyword) that decided.
MerchantReasons == {"Merchant database: ", "Known merchant: "}

CodeReasons == MerchantReasons \cup {"Keyword match: ", "Income keyword: "}

\* The result names a code under one of these prefixes; the code it names.
DecidedBy(prefixes) ==
    ~call.result.raised /\ \E prefix \in prefixes : StartsWith(prefix, call.result.reason)

DecidingCode(prefixes) ==
    LET prefix == CHOOSE prefix \in prefixes : StartsWith(prefix, call.result.reason)
    IN  After(Len(prefix), call.result.reason)

\* C5 (as claimed): a merchant name of 2 or fewer characters never decides, and
\* one of 3 or 4 characters decides only where it is a whole word of the
\* narration, in the merchant database and in the table of known merchants alike.
C5_ShortMerchantNames ==
    (Categorized /\ DecidedBy(MerchantReasons)) =>
        LET merchant == DecidingCode(MerchantReasons)
        IN  /\ Len(merchant) > 2
            /\ Len(merchant) <= 4 => WholeWordIn(merchant, CallKey)

\* C6 (as claimed): with nothing learned, categorize("RAVI KUMAR TRANSFER", -100)
\* is not decided by a short code inside a longer word, and no call is decided
\* by a code of 4 or fewer characters that is no whole word of the narration.
C6_NoShortCodeFragment ==
    (Categorized /\ user_mappings = EmptyMappings /\ DecidedBy(CodeReasons)) =>
        LET code == DecidingCode(CodeReasons)
        IN  /\ (call.description.text = "RAVI KUMAR TRANSFER" /\ call.amount = Number(-100))
                  => WholeWordIn(code, CallKey)
            /\ Len(code) <= 4 => WholeWordIn(code, CallKey)

\* What the merchant steps find for a narration: the hit of the merchant
\* database, else the hit of the table of known merchants, else nothing.
MerchantStep ==
    [source \in MerchantSources, n \in Narrations |->
        LET db == check_merchant_database(MERCHANT_LOOKUP[source], desc_lower_of[n])
        IN  IF db.found THEN db ELSE quick_lookup(desc_lower_of[n])]

\* Whether the payee extracted from a narration passes the personal name detector.
PayeePasses ==
    [source \in MerchantSources, n \in Narrations |->
        LET payee_name == extract_payee_name(n)
        IN  /\ payee_name.found
            /\ payee_name.value # ""
            /\ is_personal_name(MERCHANT_LOOKUP[source], payee_name.value)]

\* Whether a narration contains one of these keywords.
HasKeyword(keywords, n) ==
    \E k \in 1..Len(keywords) : Contains(keywords[k], desc_lower_of[n])

\* C7: for an outflow with no learned hit the merchant steps come before the
\* payee, transfer and rule steps: what they find is what is returned, and a
\* narration in which they find zomato is Food & Dining / Food Delivery, high,
\* also when its payee passes the detector or it contains a transfer keyword.
C7_MerchantBeforeTransfer ==
    (Expense /\ NoLearnedHit) =>
        LET step == MerchantStep[merchant_source, call.description.text]
        IN  /\ step.found => call.result = step.value
            /\ (step.found /\ step.value.reason = "Known merchant: zomato")
                  => Returned("Food & Dining", "Food Delivery", "high")

\* An outflow whose narration names zomato and ends in a payee that passes the
\* detector has been classified Food & Dining / Food Delivery.
C7_Witness ==
    /\ Expense
    /\ NoLearnedHit
    /\ Contains("zomato", CallKey)
    /\ PayeePasses[merchant_source, call.description.text]
    /\ Returned("Food & Dining", "Food Delivery", "high")

\* The transfer keywords as the claim lists them, and with the fifth one.
ClaimedTransferKeywords == <<"neft", "imps", "rtgs", "fund transfer">>

AllTransferKeywords == <<"neft", "imps", "rtgs", "fund transfer", "net banking">>

\* The categories of the rule scan in which a narration has a keyword or
\* pattern signal, as indices of REFINED_CATEGORIES.
SignalCategories ==
    [n \in Narrations |->
        {c \in 1..Len(REFINED_CATEGORIES) :
            /\ REFINED_CATEGORIES[c].name \notin {"Income", "Money Transfer", "Other"}
            /\ \E s \in 1..Len(REFINED_CATEGORIES[c].subcategories) :
                  subcategory_match(REFINED_CATEGORIES[c].subcategories[s],
                                    desc_lower_of[n]).kind # "none"}]

\* For a narration with signals: the category of the lowest priority among
\* them, its first subcategory in declared order with a match, and high for a
\* keyword match, medium for a pattern match.
RuleScanExpected ==
    [n \in Narrations |->
        IF SignalCategories[n] = {} THEN <<"", "", "">>
        ELSE LET c == CHOOSE c \in SignalCategories[n] : \A d \in SignalCategories[n] :
                         REFINED_CATEGORIES[c].priority <= REFINED_CATEGORIES[d].priority
                 subs == REFINED_CATEGORIES[c].subcategories
                 s == Min({t \in 1..Len(subs) :
                              subcategory_match(subs[t], desc_lower_of[n]).kind # "none"})
             IN  <<REFINED_CATEGORIES[c].name, subs[s].name,
                   IF subcategory_match(subs[s], desc_lower_of[n]).kind = "keyword"
                   THEN "high" ELSE "medium">>]

\* The call reached the rule scan: an outflow with no learned hit, no merchant
\* hit, no payee that passes the detector and no transfer keyword.
RuleScanReached ==
    /\ Expense
    /\ NoLearnedHit
    /\ ~MerchantStep[merchant_source, call.description.text].found
    /\ ~PayeePasses[merchant_source, call.description.text]
    /\ ~HasKeyword(AllTransferKeywords, call.description.text)

\* C8: in the rule scan a narration with signals for several categories gets
\* the category of the lowest priority among them and, within it, the first
\* subcategory in declared order with a keyword or pattern match; and a result
\* of the scan is never Income, Money Transfer or Other.
C8_RuleScanPriority ==
    /\ (RuleScanReached /\ SignalCategories[call.description.text] # {}) =>
          LET expected == RuleScanExpected[call.description.text]
          IN  Returned(expected[1], expected[2], expected[3])
    /\ (Categorized /\ DecidedBy({"Keyword match: ", "Pattern match"})) =>
          /\ RuleScanReached
          /\ call.result.category \notin {"Income", "Money Transfer", "Other"}

\* The rule scan has decided a narration with signals for two categories or more.
C8_Witness ==
    /\ RuleScanReached
    /\ Cardinality(SignalCategories[call.description.text]) >= 2
    /\ DecidedBy({"Keyword match: ", "Pattern match"})

\* The subcategory of a transfer: by the keyword present, NEFT before IMPS
\* before RTGS, and Bank Transfer when none of them is.
TransferSubcategory(n) ==
    IF HasKeyword(<<"neft">>, n) THEN "NEFT Transfer"
    ELSE IF HasKeyword(<<"imps">>, n) THEN "IMPS Transfer"
    ELSE IF HasKeyword(<<"rtgs">>, n) THEN "RTGS Transfer"
    ELSE "Bank Transfer"

\* An outflow with no learned hit and no merchant hit is Money Transfer, high,
\* with the subcategory of its keyword, exactly when its payee passes the
\* detector or it contains one of these keywords.
TransferExactlyWhen(keywords) ==
    (Expense /\ NoLearnedHit /\ ~MerchantStep[merchant_source, call.description.text].found) =>
        IF \/ PayeePasses[merchant_source, call.description.text]
           \/ HasKeyword(keywords, call.description.text)
        THEN Returned("Money Transfer", TransferSubcategory(call.description.text), "high")
        ELSE call.result.category # "Money Transfer"

\* C9 (as claimed): Money Transfer exactly when the payee passes the detector
\* or the narration contains neft, imps, rtgs or fund transfer.
C9_TransferAsClaimed == TransferExactlyWhen(ClaimedTransferKeywords)

\* C9 (amended): Money Transfer exactly when the payee passes the detector or
\* the narration contains neft, imps, rtgs, fund transfer or net banking.
C9_TransferExactlyWhen == TransferExactlyWhen(AllTransferKeywords)

\* An outflow that contains net banking, has no payee and no merchant has been
\* classified Money Transfer / Bank Transfer.
C9_Witness ==
    /\ Expense
    /\ NoLearnedHit
    /\ ~MerchantStep[merchant_source, call.description.text].found
    /\ ~PayeePasses[merchant_source, call.description.text]
    /\ HasKeyword(<<"net banking">>, call.description.text)
    /\ Returned("Money Transfer", "Bank Transfer", "high")

\* The Income subcategories with signals, in the order they are declared in.
IncomeOrder == <<"Salary", "Interest", "Dividends", "Refunds">>

\* For a narration: the first subcategory of IncomeOrder with a keyword match
\* (high) or a pattern match (medium), else Other Income, low.
IncomeExpected ==
    [n \in Narrations |->
        LET subs == REFINED_CATEGORIES[categories_index("Income")].subcategories
            info(name) == subs[CHOOSE s \in 1..Len(subs) : subs[s].name = name]
            matched == {i \in 1..Len(IncomeOrder) :
                           subcategory_match(info(IncomeOrder[i]), desc_lower_of[n]).kind # "none"}
        IN  IF matched = {} THEN <<"Other Income", "low">>
            ELSE <<IncomeOrder[Min(matched)],
                   IF subcategory_match(info(IncomeOrder[Min(matched)]),
                                        desc_lower_of[n]).kind = "keyword"
                   THEN "high" ELSE "medium">>]

\* C10: an inflow with no learned hit is Income whatever the merchant, transfer
\* and rule steps would find, with the first subcategory in declared order that
\* has a keyword match (high) or a pattern match (medium), and Other Income,
\* low, when none has.
C10_IncomeBranch ==
    (Inflow /\ NoLearnedHit) =>
        LET expected == IncomeExpected[call.description.text]
        IN  /\ Returned("Income", expected[1], expected[2])
            /\ [i \in 1..Len(IncomeOrder) |->
                   REFINED_CATEGORIES[categories_index("Income")].subcategories[i].name]
               = IncomeOrder

\* An inflow whose narration names a merchant has been classified Income.
C10_Witness ==
    /\ Inflow
    /\ NoLearnedHit
    /\ MerchantStep[merchant_source, call.description.text].found
    /\ call.result.category = "Income"

\* C11: an outflow for which no learned, merchant, transfer or rule step fires
\* is Other / ATM Withdrawal, high, when the narration contains atm or cash
\* withdrawal, and Other / Uncategorized, low, otherwise; the empty narration
\* with an amount not above 0 is Other / Uncategorized, low.
C11_Fallback ==
    /\ (RuleScanReached /\ SignalCategories[call.description.text] = {}) =>
          IF HasKeyword(<<"atm", "cash withdrawal">>, call.description.text)
          THEN Returned("Other", "ATM Withdrawal", "high")
          ELSE Returned("Other", "Uncategorized", "low")
    /\ (Expense /\ NoLearnedHit /\ call.description.text = "") =>
          Returned("Other", "Uncategorized", "low")

\* An outflow with the cash withdrawal marker and nothing else has fallen
\* through every step to Other / ATM Withdrawal.
C11_Witness ==
    /\ RuleScanReached
    /\ SignalCategories[call.description.text] = {}
    /\ HasKeyword(<<"cash withdrawal">>, call.description.text)
    /\ ~HasKeyword(<<"atm">>, call.description.text)
    /\ Returned("Other", "ATM Withdrawal", "high")

\* C12 (as claimed): a stored keyword is an alphabetic token of the narration
\* of 4 characters or more (never empty, never with another character in it),
\* and an exact entry is stored under the lower-cased, trimmed narration.
C12_KeywordExtraction ==
    /\ \A i \in 1..Len(user_mappings.keywords) :
          LET keyword == user_mappings.keywords[i].name
          IN  /\ Len(keyword) >= 4
              /\ \A k \in 1..Len(keyword) : CharAt(keyword, k) \in CharsOf(LOWER_LETTERS)
    /\ (call.op = "learn" /\ call.ok /\ call.match_type = "exact") =>
          \E i \in 1..Len(user_mappings.exact_matches) :
              /\ user_mappings.exact_matches[i].name = desc_lower_of[call.description.text]
              /\ user_mappings.exact_matches[i].category = call.category
              /\ user_mappings.exact_matches[i].subcategory = call.subcategory

\* The entry of the learn call that has just returned is in the mapping in memory.
LearnedInMemory ==
    LET key == desc_lower_of[call.description.text]
        entries == IF call.match_type = "exact" THEN user_mappings.exact_matches
                   ELSE user_mappings.keywords
    IN  \E i \in 1..Len(entries) :
            /\ entries[i].category = call.category
            /\ entries[i].subcategory = call.subcategory
            /\ IF call.match_type = "exact" THEN entries[i].name = key
               ELSE Contains(entries[i].name, key)

\* C13 (as claimed): a learn call that returns True has written its mapping to
\* the file, so a learn call whose write failed returns False; in both cases
\* the mapping in memory holds the learned entry.
C13_FailureIsReported ==
    (call.op = "learn" /\ ~call.description.none) =>
        /\ LearnedInMemory
        /\ call.ok => /\ mappings_file.state = "document"
                      /\ mappings_file.document = user_mappings

\* C15 (as claimed): whatever the outcome of the write, the mapping file holds
\* a whole document, the previous one or the new one, or does not exist yet.
C15_NoPartialDocument ==
    /\ mappings_file.state \in {"absent", "document"}
    /\ (call.op = "learn" /\ mappings_file.state = "document") =>
          mappings_file.document = user_mappings

\* The entry worker w learned is in the mapping file.
InStore(w) ==
    /\ store.state = "document"
    /\ \E i \in 1..Len(store.document.keywords) :
          /\ Contains(store.document.keywords[i].name,
                      desc_lower_of[WorkerLearns[w].description.text])
          /\ store.document.keywords[i].category = WorkerLearns[w].category
          /\ store.document.keywords[i].subcategory = WorkerLearns[w].subcategory

\* C14 (as claimed): when the workers on one mapping file have each learned
\* their own key, every learn having returned True after a write that
\* succeeded, the file holds the entries of all of them, whatever the order of
\* their loads and saves was.
C14_NoLostUpdate ==
    (\A w \in Workers : workers[w].pc = "ready" /\ workers[w].learned = "saved")
        => \A w \in Workers : InStore(w)

\* C16 (as claimed): whatever state the mapping file is in when an instance is
\* constructed on it (absent, no JSON, or JSON of another shape), the instance
\* has tables of the expected shape and every categorize call on it returns a
\* result.
C16_CorruptSourcesTolerated ==
    (module_import.imported /\ worker_call.op = "categorize") =>
        /\ workers[worker_call.worker].memory.shape = "dict"
        /\ ~worker_call.result.raised

\* The sanitize_text call that has just returned.
Sanitized == sanitize_call.op = "sanitize_text"

\* C17 (as claimed): sanitizing what sanitize_text returned as sanitized gives
\* no findings and returns the text as it was given.
C17_MaskingIdempotent ==
    (Sanitized /\ sanitize_call.again) =>
        /\ sanitize_call.result.pii_found = << >>
        /\ sanitize_call.result.sanitized = sanitize_call.result.original

\* The 10-digit numbers beginning with 6 to 9 that stand alone in the text or
\* are the user part of a handle (digits, then '@' and a bank).
PhonesIn(text) ==
    LET standalone == FindIter("phone", text, 1)
    IN  {standalone[k] : k \in 1..Len(standalone)}

\* C18 (as claimed): no phone number that the text given to sanitize_text had
\* standing alone or as the user part of a handle can be read in the text
\* returned.
C18_NoPhoneReadable ==
    Sanitized =>
        \A phone \in PhonesIn(sanitize_call.result.original) :
            ~Contains(phone, sanitize_call.result.sanitized)

\* A narration UPI-<name>-<phone>@<bank>-<routing code>-<reference>-<free text>.
IsHandleOfPhone(part) ==
    /\ Len(part) > 11
    /\ AllIn(part, 1, 10, DigitChars)
    /\ CharAt(part, 11) = "@"
    /\ IsAlphaStr(SubSeq(part, 12, Len(part)))

UpiNarration(text) ==
    LET parts == SplitSep(text, "-")
    IN  /\ Len(parts) = 6
        /\ parts[1] = "UPI"
        /\ \A i \in 1..Len(parts[2]) : CharAt(parts[2], i) \in UpperChars \cup {" "}
        /\ Len(Split(parts[2])) >= 2
        /\ IsHandleOfPhone(parts[3])
        /\ Len(parts[5]) = 12 /\ IsDigitStr(parts[5])

\* C19 (as claimed): of a narration of that form the name is replaced by a
\* placeholder, the phone of the handle and the reference cannot be read any
\* more, the reference keeps its last four digits, and the routing code and
\* the free text are where and what they were.
C19_UpiNarrationMasked ==
    (Sanitized /\ UpiNarration(sanitize_call.result.original)) =>
        LET was == SplitSep(sanitize_call.result.original, "-")
            now == SplitSep(sanitize_call.result.sanitized, "-")
        IN  /\ Len(now) = 6
            /\ now[1] = "UPI"
            /\ CharAt(now[2], 1) = "[" /\ CharAt(now[2], Len(now[2])) = "]"
            /\ ~Contains(SubSeq(was[3], 1, 10), sanitize_call.result.sanitized)
            /\ Contains("@", now[3])
            /\ now[4] = was[4]
            /\ now[5] = mask_account_number(was[5])
            /\ now[6] = was[6]

\* C20: the counters are the findings returned since the last reset, counted
\* by type; the summary totals the four counters; and the list a call returns
\* is the list a sanitizer that has found nothing yet returns for the text.
C20_CountersAreFindings ==
    /\ stats = returned
    /\ sanitize_call.op = "get_sanitization_summary" =>
          /\ sanitize_call.summary.breakdown = returned
          /\ sanitize_call.summary.total_pii_masked =
                returned.phone_numbers + returned.account_numbers
                + returned.personal_names + returned.upi_ids
    /\ Sanitized =>
          sanitize_call.result.pii_found =
              sanitize_text(ZeroStats, sanitize_call.result.original).pii_found

\* Two calls have found something of every type, one type more than once, and
\* the summary has been asked for.
C20_Witness ==
    /\ sanitize_call.op = "get_sanitization_summary"
    /\ n_sanitize >= 2
    /\ stats.phone_numbers >= 2
    /\ stats.account_numbers >= 1
    /\ stats.personal_names >= 1
    /\ stats.upi_ids >= 1
    /\ sanitize_call.summary.total_pii_masked >= 5

\* C21 (as claimed): every name the calls since the last reset have detected is
\* a key of the name placeholder map, no name has been given two placeholders,
\* the summary counts the names of the map, and a reset leaves the map empty.
C21_NamePlaceholderMap ==
    /\ \A n \in named : \E k \in 1..Len(name_mapping) : name_mapping[k].name = n.name
    /\ \A a, b \in named : a.name = b.name => a.placeholder = b.placeholder
    /\ sanitize_call.op = "get_sanitization_summary" =>
          sanitize_call.summary.unique_names_found = Cardinality({n.name : n \in named})
    /\ sanitize_call.op = "reset_stats" => name_mapping = << >>

\* The call that has just returned was given nothing: None, a missing value or
\* the empty string.
GivenNothing ==
    /\ Sanitized
    /\ sanitize_call.given.kind \in MissingKinds \/ sanitize_call.given.text = ""

\* C23 (as claimed): sanitize_text of None, of a missing value or of the empty
\* string returns what it was given, with no findings, and leaves the counters
\* as they were.
C23_AbsentInputUnchanged ==
    [][GivenNothing' =>
          /\ sanitize_call'.result.pii_found = << >>
          /\ stats' = stats
          /\ TextValue(sanitize_call'.result.sanitized) = sanitize_call'.given]_vars

\* The findings of a type in the list the call returned.
FoundOf(type) ==
    {sanitize_call.result.pii_found[k] :
        k \in {j \in 1..Len(sanitize_call.result.pii_found) :
                  sanitize_call.result.pii_found[j].type = type}}

\* A handle from its first '@' on.
BankOf(handle) ==
    SubSeq(handle, Min({i \in 1..Len(handle) : CharAt(handle, i) = "@"}), Len(handle))

\* The handles of the text whose user part is a phone number: ten digits from
\* 6 to 9 on, after a word boundary, then '@' and the bank.
PhoneHandles(text) ==
    {i \in 1..Len(text) :
        /\ WordBoundary(text, i)
        /\ MatchAt("phone", text, i).found
        /\ MatchAt("upi_phone", text, i).found}

\* C24 (as claimed): a handle whose user part is a phone number gives one phone
\* finding and no payment-identifier finding, and stands in the output as the
\* masked phone with its '@bank'; no payment-identifier finding is of a known
\* merchant; and the masked form of every other handle keeps its bank.
C24_HandlesByKind ==
    Sanitized =>
        /\ \A i \in PhoneHandles(sanitize_call.result.original) :
              LET phone == MatchAt("upi_phone", sanitize_call.result.original, i)
                  bank == SubSeq(sanitize_call.result.original, i + 10, phone.end - 1)
              IN  /\ \E f \in FoundOf("phone_number") : f.original = phone.group
                  /\ \A f \in FoundOf("upi_id") :
                        ~Contains(mask_phone_number(phone.group), f.original)
                  /\ Contains(mask_phone_number(phone.group) \o bank,
                              sanitize_call.result.sanitized)
        /\ \A f \in FoundOf("upi_id") :
              /\ \A merchant \in UpiMerchants : ~Contains(merchant, Lower(f.original))
              /\ BankOf(f.masked) = BankOf(f.original)

\* The reference sequences of a text: the runs of capital letters and digits,
\* with a digit among them, that no letter or digit precedes or follows.
ReferencesIn(text) ==
    {SubSeq(text, i, i + RunLen(text, i, IfscTailChars) - 1) :
        i \in {j \in 1..Len(text) :
                  /\ CharAt(text, j) \in IfscTailChars
                  /\ (j = 1 \/ CharAt(text, j - 1) \notin IfscTailChars)
                  /\ HasDigit(SubSeq(text, j, j + RunLen(text, j, IfscTailChars) - 1))}}

\* C25 (as claimed): of the text given, every reference sequence of 10
\* characters or more that is neither a routing code nor a phone number is
\* gone from the text returned, its mask of the same length with the last 4
\* characters is there, and no account finding is a routing code or shorter
\* than 10 characters.
C25_ReferencesMasked ==
    (Sanitized /\ ~sanitize_call.again) =>
        /\ \A ref \in ReferencesIn(sanitize_call.result.original) :
              (/\ Len(ref) >= 10
               /\ ~MatchAt("phone", ref, 1).found
               /\ ~(MatchAt(IFSC_PATTERN, ref, 1).found /\ Len(ref) = 11))
              => /\ ~Contains(ref, sanitize_call.result.sanitized)
                 /\ Contains(mask_account_number(ref), sanitize_call.result.sanitized)
        /\ \A f \in FoundOf("account_number") :
              /\ Len(f.original) >= 10
              /\ ~(MatchAt(IFSC_PATTERN, f.original, 1).found /\ Len(f.original) = 11)
              /\ Len(f.masked) = Len(f.original)

\* C26 (as claimed): the names of a UPI narration are given the payee
\* placeholder, those of a NEFT narration the account-holder placeholder when
\* the prefix says CR and the recipient placeholder when it says DR, and those
\* of an IMPS narration the party placeholder.
C26_PlaceholderByRole ==
    Sanitized =>
        LET text == Upper(sanitize_call.result.original)
            direction == SubSeq(text, 5 + RunLen(text, 5, Whitespace),
                                6 + RunLen(text, 5, Whitespace))
        IN  \A f \in FoundOf("personal_name") :
               /\ StartsWithText(text, "UPI") => f.masked = "[PAYEE]"
               /\ (StartsWithText(text, "NEFT") /\ direction = "CR") =>
                     f.masked = "[ACCOUNT_HOLDER]"
               /\ (StartsWithText(text, "NEFT") /\ direction = "DR") =>
                     f.masked = "[RECIPIENT]"
               /\ StartsWithText(text, "IMPS") => f.masked = "[PARTY]"

\* C22 (as claimed): on every candidate the name test of the classifier and
\* the name test of the sanitizer give the same verdict.
C22_OneNameTest ==
    /\ name_test.op = "_is_personal_name" =>
          name_test.verdict = is_likely_personal_name(name_test.text)
    /\ name_test.op = "is_likely_personal_name" =>
          name_test.verdict = is_personal_name(MERCHANT_LOOKUP[merchant_source],
                                               name_test.text)

\* The tokens of the candidate, lower-cased.
TestedTokens == Split(Strip(Lower(name_test.text)))

HasBusinessSuffix == \E i \in 1..Len(TestedTokens) : TestedTokens[i] \in BUSINESS_SUFFIXES

MatchesMerchant ==
    \/ \E merchant \in KNOWN_MERCHANT_NAMES(MERCHANT_LOOKUP[merchant_source]) :
          Contains(merchant, Strip(Lower(name_test.text)))
    \/ \E k \in 1..Len(KNOWN_MERCHANTS) :
          Contains(KNOWN_MERCHANTS[k].name, Strip(Lower(name_test.text)))

\* A token as it is, or with the honorific it begins with taken off.
WithoutHonorific(token) ==
    {token} \cup {SubSeq(token, Len(h) + 1, Len(token)) :
                    h \in {h \in {"mr", "mrs", "ms", "dr"} : StartsWithText(token, h)}}

GazetteerHit ==
    \E i \in 1..Len(TestedTokens) :
        WithoutHonorific(TestedTokens[i]) \cap COMMON_INDIAN_FIRST_NAMES # {}

\* C27 (as claimed): a candidate with no business suffix and no merchant match
\* is accepted by the classifier's name test when one of its tokens is in the
\* gazetteer.
C27_GazetteerAccepts ==
    (/\ name_test.op = "_is_personal_name"
     /\ ~HasBusinessSuffix
     /\ ~MatchesMerchant
     /\ GazetteerHit) => name_test.verdict

\* C28 (as claimed): with no business suffix, no merchant match and no
\* gazetteer hit the candidate is accepted exactly when it has 1 to 3 tokens,
\* no digit, and tokens of 2 to 20 characters; with a business suffix or a
\* merchant match it is rejected.
C28_ShapeRule ==
    name_test.op = "_is_personal_name" =>
        /\ (~HasBusinessSuffix /\ ~MatchesMerchant /\ ~GazetteerHit) =>
              (name_test.verdict <=>
                  /\ Len(TestedTokens) \in 1..3
                  /\ ~HasDigit(name_test.text)
                  /\ \A i \in 1..Len(TestedTokens) : Len(TestedTokens[i]) \in 2..20)
        /\ (HasBusinessSuffix \/ MatchesMerchant) => ~name_test.verdict

\* The (category, subcategory) pairs the category rule set declares.
DeclaredPairs ==
    UNION {{<<REFINED_CATEGORIES[c].name, REFINED_CATEGORIES[c].subcategories[s].name>> :
               s \in 1..Len(REFINED_CATEGORIES[c].subcategories)} :
           c \in 1..Len(REFINED_CATEGORIES)}

\* The categorize call that has just returned ended with a result.
GaveResult == Categorized /\ ~call.result.raised

\* How the result was matched, as its reason tells.
ReasonIs(prefix) == StartsWith(prefix, call.result.reason)

LearnedReason == ReasonIs("User-defined exact match") \/ ReasonIs("User-defined keyword: ")

MerchantReason == ReasonIs("Merchant database: ") \/ ReasonIs("Known merchant: ")

TransferReason == ReasonIs("Identified as personal money transfer")

KeywordReason == ReasonIs("Keyword match: ") \/ ReasonIs("Income keyword: ")

PatternReason == ReasonIs("Pattern match") \/ ReasonIs("Income pattern match")

\* C29: every result of categorize has a confidence of high, medium or low;
\* learned, merchant, transfer and keyword hits are high, pattern hits are
\* medium, and low comes only with Income / Other Income and Other /
\* Uncategorized; a result is a learned one exactly when a learned map is hit,
\* and every result that is neither learned nor from the merchant database
\* names a pair the category rule set declares.
C29_ConfidenceAndDeclaredPairs ==
    GaveResult =>
        /\ call.result.confidence \in {"high", "medium", "low"}
        /\ (LearnedReason <=> ~NoLearnedHit)
        /\ (LearnedReason \/ MerchantReason \/ TransferReason \/ KeywordReason) =>
              call.result.confidence = "high"
        /\ PatternReason => call.result.confidence = "medium"
        /\ call.result.confidence = "low" =>
              <<call.result.category, call.result.subcategory>> \in
                  {<<"Income", "Other Income">>, <<"Other", "Uncategorized">>}
        /\ (~LearnedReason /\ ~ReasonIs("Merchant database: ")) =>
              <<call.result.category, call.result.subcategory>> \in DeclaredPairs

\* A pattern hit has returned with medium confidence and a declared pair.
C29_Witness ==
    /\ GaveResult
    /\ PatternReason
    /\ call.result.confidence = "medium"
    /\ <<call.result.category, call.result.subcategory>> \in DeclaredPairs

\* The keys of a learned map.
KeysOf(d) == {d[i].name : i \in 1..Len(d)}

\* What a learned map holds under a key.
ValueOf(d, key) ==
    LET i == CHOOSE i \in 1..Len(d) : d[i].name = key
    IN  <<d[i].category, d[i].subcategory>>

\* The map after differs from the map before in the entry of one key, which
\* holds this category and subcategory.
OneEntrySet(before, after, category, subcategory) ==
    \E key \in KeysOf(after) :
        /\ KeysOf(after) = KeysOf(before) \cup {key}
        /\ Len(after) = Cardinality(KeysOf(after))
        /\ ValueOf(after, key) = <<category, subcategory>>
        /\ \A other \in KeysOf(before) \ {key} : ValueOf(after, other) = ValueOf(before, other)

\* C30: a call through learn_category, whatever match_type the request
\* carries, leaves the exact_matches map and the patterns map as they were;
\* when it returns True it has set one entry of the keywords map to the
\* category and subcategory given, and when it returns False the maps are
\* unchanged.
C30_FacadeLearnsKeywords ==
    [][call'.op = "learn_category" /\ call.op = "idle" =>
          /\ user_mappings'.exact_matches = user_mappings.exact_matches
          /\ user_mappings'.patterns = user_mappings.patterns
          /\ call'.ok => OneEntrySet(user_mappings.keywords, user_mappings'.keywords,
                                     call'.category, call'.subcategory)
          /\ ~call'.ok => user_mappings' = user_mappings]_vars

\* A request with match_type 'exact' has been learned through the facade while
\* an exact match was there, and the keywords map has an entry.
C30_Witness ==
    /\ call.op = "learn_category"
    /\ call.match_type = "exact"
    /\ call.ok
    /\ user_mappings.exact_matches # << >>
    /\ user_mappings.keywords # << >>

====
